---- MODULE Spec2Model ----
(***************************************************************************)
(* Model of the MCP server's POST /api/graph route and graphQuery          *)
(* (src/mcp-server/server.js) and of the Claude app's lenient JSON repair  *)
(* (src/claude-app/sanitize-request.js).                                   *)
(*                                                                         *)
(* JavaScript strings are sequences of one-character strings, so that      *)
(* startsWith, toUpperCase, concatenation and the repair scan are computed *)
(* as the code computes them.  A missing property is Undefined.            *)
(***************************************************************************)
EXTENDS Integers, Sequences, FiniteSets, TLC

VARIABLES
    entry,      \* per request: "route" (POST /api/graph) or "direct" (graphQuery called)
    userId,     \* per request: the X-User-ID header (Undefined when absent)
    desc,       \* per request: the request descriptor (req.body / options)
    pc,         \* per request: the position of the handler
    ctx,        \* per request: req.mcpContext
    loc,        \* per request: graphQuery's locals
    calls,      \* per request: the outbound calls issued so far, in order
    received,   \* per request: the Graph responses received so far, in order
    outcome,    \* per request: how graphQuery ended (returned / threw)
    response,   \* per request: the HTTP response of the route
    sIn,        \* sanitizer: the string sanitizeJsonString is called with
    sOut,       \* sanitizer: the string it returned
    sPc,        \* sanitizer: "idle", "ready" or "done"
    chat,       \* the POST /api/messages request of the Claude app
    app         \* Claude app: one HTTP request on its way through the middleware

srvVars == <<entry, userId, desc, pc, ctx, loc, calls, received, outcome, response>>
sanVars == <<sIn, sOut, sPc>>
appVars == <<app, chat>>
vars == <<entry, userId, desc, pc, ctx, loc, calls, received, outcome, response,
          sIn, sOut, sPc, app, chat>>

-----------------------------------------------------------------------------
(* Bounds of the model *)

\* the longest chain of pages the upstream serves
MaxPages == 3
\* the largest number of items in one page
MaxItems == 3

-----------------------------------------------------------------------------
(* JavaScript values *)

\* the value of a property that is absent
Undefined == <<"undefined">>

\* falsy strings: undefined and ''
IsFalsy(s) == s = Undefined \/ s = <<>>

\* a || b on strings
OrDefault(s, d) == IF IsFalsy(s) THEN d ELSE s

\* String.prototype.startsWith
StartsWith(s, p) == Len(s) >= Len(p) /\ SubSeq(s, 1, Len(p)) = p

LowerCaseLetters ==
    <<"a","b","c","d","e","f","g","h","i","j","k","l","m",
      "n","o","p","q","r","s","t","u","v","w","x","y","z">>
UpperCaseLetters ==
    <<"A","B","C","D","E","F","G","H","I","J","K","L","M",
      "N","O","P","Q","R","S","T","U","V","W","X","Y","Z">>

UpperChar(c) ==
    IF \E i \in 1..26 : LowerCaseLetters[i] = c
    THEN UpperCaseLetters[CHOOSE i \in 1..26 : LowerCaseLetters[i] = c]
    ELSE c

\* String.prototype.toUpperCase
ToUpperCase(s) == [i \in 1..Len(s) |-> UpperChar(s[i])]

DigitChars == <<"0","1","2","3","4","5","6","7","8","9">>

\* the characters encodeURIComponent leaves alone
UriUnreserved ==
    {LowerCaseLetters[i] : i \in 1..26} \cup {UpperCaseLetters[i] : i \in 1..26}
    \cup {DigitChars[i] : i \in 1..10}
    \cup {"-", "_", ".", "!", "~", "*", "'", "(", ")"}

\* encodeURIComponent on one character (the reserved characters the model uses)
EncodeChar(c) ==
    IF c \in UriUnreserved THEN <<c>>
    ELSE CASE c = "$" -> <<"%","2","4">>
           [] c = " " -> <<"%","2","0">>
           [] c = "," -> <<"%","2","C">>
           [] c = "/" -> <<"%","2","F">>
           [] c = "=" -> <<"%","3","D">>
           [] c = "&" -> <<"%","2","6">>
           [] c = "?" -> <<"%","3","F">>
           [] c = ":" -> <<"%","3","A">>
           [] OTHER   -> <<"%","3","F">>

RECURSIVE EncodeURIComponent(_)
EncodeURIComponent(s) ==
    IF s = <<>> THEN <<>> ELSE EncodeChar(Head(s)) \o EncodeURIComponent(Tail(s))

-----------------------------------------------------------------------------
(* Strings of the program *)

GET == <<"G","E","T">>
POST == <<"P","O","S","T">>
PUT == <<"P","U","T">>
PATCH == <<"P","A","T","C","H">>
DELETE == <<"D","E","L","E","T","E">>

BETA == <<"b","e","t","a">>
V1 == <<"v","1",".","0">>
V2 == <<"v","2",".","0">>

SlashUsers == <<"/","u","s","e","r","s">>
SlashGroups == <<"/","g","r","o","u","p","s">>

GraphHost ==
    <<"h","t","t","p","s",":","/","/","g","r","a","p","h",".",
      "m","i","c","r","o","s","o","f","t",".","c","o","m","/">>

ConsistencyLevelKey ==
    <<"c","o","n","s","i","s","t","e","n","c","y","L","e","v","e","l">>
Eventual == <<"e","v","e","n","t","u","a","l">>

-----------------------------------------------------------------------------
(* Errors, results and responses *)

\* an Error's message: fixed text, and the values the template embeds
Msg(text) == [text |-> text, status |-> 0, arg |-> <<>>, detail |-> ""]

NoError == Msg("")

\* a decoded Graph body as graphQuery returns it
RawResult(body) ==
    [hasValue |-> body.hasValue, value |-> body.value, nextLink |-> body.nextLink,
     hasCount |-> FALSE, count |-> 0]

\* { value: allItems, '@odata.count': allItems.length }
CombinedResult(allItems) ==
    [hasValue |-> TRUE, value |-> allItems, nextLink |-> Undefined,
     hasCount |-> TRUE, count |-> Len(allItems)]

NoResult == [hasValue |-> FALSE, value |-> <<>>, nextLink |-> Undefined,
             hasCount |-> FALSE, count |-> 0]

NoOutcome == [kind |-> "none", error |-> NoError, result |-> NoResult]
Returned(result) == [kind |-> "returned", error |-> NoError, result |-> result]
Threw(error) == [kind |-> "threw", error |-> error, result |-> NoResult]

NoResponse == [status |-> 0, error |-> "", message |-> NoError, result |-> NoResult]

\* res.status(code).json({ error, message })
ErrorResponse(code, error, message) ==
    [status |-> code, error |-> error, message |-> message, result |-> NoResult]

\* res.json(result)
ResultResponse(result) ==
    [status |-> 200, error |-> "", message |-> NoError, result |-> result]

-----------------------------------------------------------------------------
(* MCPContext *)

NoContext == [userId |-> Undefined, permissions |-> {}, initialized |-> FALSE]

DefaultUser == <<"d","e","f","a","u","l","t","-","u","s","e","r">>

\* a variant whose users also hold the permission of the unlisted endpoints
fetchUserPermissionsWithDirectory ==
    {"User.Read.All", "Group.Read.All", "Sites.Read.All", "Directory.ReadWrite.All"}

fetchUserPermissions == {"User.Read.All", "Group.Read.All", "Sites.Read.All"}

\* a variant in which only requests that name their user get the permissions
initializeNamedUsers(header) ==
    [userId |-> OrDefault(header, DefaultUser),
     permissions |-> IF IsFalsy(header) THEN {} ELSE fetchUserPermissions,
     initialized |-> TRUE]

\* new MCPContext(userId) followed by initialize()
initialize(header) ==
    [userId |-> OrDefault(header, DefaultUser),
     permissions |-> fetchUserPermissions,
     initialized |-> TRUE]

\* a variant that grants every permission once the context holds any
hasPermissionAny(permissions, requiredPermission) == permissions # {}

hasPermission(permissions, requiredPermission) == requiredPermission \in permissions

\* a variant that asks only for read permission on /groups
getPermissionForEndpointReadOnlyGroups(endpoint, method) ==
    IF StartsWith(endpoint, SlashUsers) /\ method = GET THEN "User.Read.All"
    ELSE IF StartsWith(endpoint, SlashUsers) /\ method \in {POST, PUT, PATCH}
         THEN "User.ReadWrite.All"
    ELSE IF StartsWith(endpoint, SlashGroups) THEN "Group.Read.All"
    ELSE "Directory.ReadWrite.All"

getPermissionForEndpoint(endpoint, method) ==
    IF StartsWith(endpoint, SlashUsers) /\ method = GET THEN "User.Read.All"
    ELSE IF StartsWith(endpoint, SlashUsers) /\ method \in {POST, PUT, PATCH}
         THEN "User.ReadWrite.All"
    ELSE IF StartsWith(endpoint, SlashGroups) /\ method = GET THEN "Group.Read.All"
    ELSE IF StartsWith(endpoint, SlashGroups) /\ method \in {POST, PUT, PATCH}
         THEN "Group.ReadWrite.All"
    ELSE "Directory.ReadWrite.All"

-----------------------------------------------------------------------------
(* graphQuery: validation and request building *)

validMethods == {GET, POST, PUT, PATCH}
validVersions == {BETA, V1}

\* (options.method || 'GET').toUpperCase()
MethodOf(d) == ToUpperCase(OrDefault(d.method, GET))

\* options.version || 'beta'
VersionOf(d) == OrDefault(d.version, BETA)

\* options.queryParams || {}   (an object is its entries, in insertion order)
QueryParamsOf(d) == IF d.queryParams.present THEN d.queryParams.entries ELSE <<>>

\* options.headers || {}
HeadersOf(d) == IF d.headers.present THEN d.headers.entries ELSE <<>>

\* options.allData || false
AllDataOf(d) == d.allData = "true"

\* the error graphQuery throws before its try block, NoError when it throws none
ValidationError(d) ==
    IF IsFalsy(d.endpoint) THEN Msg("Graph API endpoint is required")
    ELSE IF MethodOf(d) \notin validMethods
         THEN [Msg("Invalid HTTP method") EXCEPT !.arg = MethodOf(d)]
    ELSE IF VersionOf(d) \notin validVersions
         THEN [Msg("Invalid API version") EXCEPT !.arg = VersionOf(d)]
    ELSE NoError

\* a variant that uses the endpoint as given
NormalizeEndpointAsGiven(endpoint) == endpoint

\* options.endpoint.startsWith('/') ? options.endpoint : `/${options.endpoint}`
NormalizeEndpoint(endpoint) ==
    IF StartsWith(endpoint, <<"/">>) THEN endpoint ELSE <<"/">> \o endpoint

\* queryParams[key] = value
SetParam(queryParams, key, value) ==
    IF \E i \in 1..Len(queryParams) : queryParams[i].k = key
    THEN [i \in 1..Len(queryParams) |->
             IF queryParams[i].k = key THEN [k |-> key, v |-> value]
             ELSE queryParams[i]]
    ELSE Append(queryParams, [k |-> key, v |-> value])

\* queryParams['consistencyLevel'] = 'eventual'
WithConsistencyLevel(queryParams) == SetParam(queryParams, ConsistencyLevelKey, Eventual)

\* Object.entries(queryParams).map(...).join('&')
RECURSIVE QueryString(_)
QueryString(queryParams) ==
    IF queryParams = <<>> THEN <<>>
    ELSE EncodeURIComponent(Head(queryParams).k) \o <<"=">>
         \o EncodeURIComponent(Head(queryParams).v)
         \o (IF Tail(queryParams) = <<>> THEN <<>>
             ELSE <<"&">> \o QueryString(Tail(queryParams)))

\* `${baseUrl}${endpoint}${queryString ? '?' + queryString : ''}`
BuildUrl(version, endpoint, queryParams) ==
    GraphHost \o version \o NormalizeEndpoint(endpoint)
    \o (IF QueryString(queryParams) # <<>>
        THEN <<"?">> \o QueryString(queryParams) ELSE <<>>)

-----------------------------------------------------------------------------
(* The upstream: the identity provider and Microsoft Graph *)

\* what acquireTokenByClientCredential resolves to; "" when it rejects
TokenResults == {"", "tokenA", "tokenB"}

\* the items of the k-th page, n of them
Items(k, n) == [i \in 1..n |-> 10 * k + i]

\* the sizes a page comes in: empty, full, and one short of full
PageSizes == {0, MaxItems - 1, MaxItems}

\* the @odata.nextLink the k-th page carries
NextLinkOf(k) == <<"n","e","x","t">> \o <<DigitChars[k + 2]>>

\* the responses fetch can give to the k-th Graph request of a call: status 0 is
\* a network error (fetch rejects), jsonOk says whether response.json() resolves
GraphResponses(k) ==
    { [status |-> 200, jsonOk |-> TRUE, hasValue |-> hv,
       value |-> IF hv THEN Items(k, n) ELSE <<>>, nextLink |-> nl, payload |-> ""] :
         hv \in BOOLEAN, n \in PageSizes,
         nl \in IF k < MaxPages THEN {Undefined, NextLinkOf(k)} ELSE {Undefined} }
    \cup
    { [status |-> st, jsonOk |-> jo, hasValue |-> FALSE, value |-> <<>>,
       nextLink |-> Undefined, payload |-> IF jo THEN "{error}" ELSE ""] :
         st \in {404, 503}, jo \in BOOLEAN }
    \cup
    { [status |-> st, jsonOk |-> FALSE, hasValue |-> FALSE, value |-> <<>>,
       nextLink |-> Undefined, payload |-> ""] : st \in {0, 200} }

\* response.ok
ResponseOk(resp) == resp.status >= 200 /\ resp.status <= 299

\* a variant that reports a non-2xx response without its status and payload
makeRequestNoStatus(resp) ==
    IF resp.status = 0 THEN Threw(Msg("request failed"))
    ELSE IF ~ResponseOk(resp) THEN Threw(Msg("Graph API error"))
    ELSE IF ~resp.jsonOk THEN Threw(Msg("invalid json response body"))
    ELSE Returned(RawResult(resp))

\* makeRequest, from the response on: what it returns or throws
makeRequest(resp) ==
    IF resp.status = 0 THEN Threw(Msg("request failed"))
    ELSE IF ~ResponseOk(resp)
         THEN Threw([Msg("Graph API error") EXCEPT
                        !.status = resp.status,
                        !.detail = IF resp.jsonOk THEN resp.payload ELSE "null"])
    ELSE IF ~resp.jsonOk THEN Threw(Msg("invalid json response body"))
    ELSE Returned(RawResult(resp))

-----------------------------------------------------------------------------
(* graphQuery: locals and the pagination loop *)

NoLoc == [method |-> <<>>, version |-> <<>>, queryParams |-> <<>>, allData |-> FALSE,
          headers |-> <<>>, status |-> 0, accessToken |-> "", url |-> <<>>, allItems |-> <<>>, nextLink |-> Undefined,
          paging |-> FALSE]

\* the locals graphQuery sets from its options before the try block
Defaults(d) ==
    [NoLoc EXCEPT !.method = MethodOf(d), !.version = VersionOf(d),
                  !.queryParams = QueryParamsOf(d), !.allData = AllDataOf(d),
                  !.headers = HeadersOf(d)]

\* { ...target, ...source }: the source's properties set on the target in order
RECURSIVE Spread(_, _)
Spread(target, source) ==
    IF source = <<>> THEN target
    ELSE Spread(SetParam(target, Head(source).k, Head(source).v), Tail(source))

\* fetchOptions.headers
FetchHeaders(l) ==
    Spread(<< [k |-> "Accept", v |-> "application/json"],
              [k |-> "Authorization", v |-> "Bearer " \o l.accessToken] >>,
           l.headers)

TokenCall == [kind |-> "token", url |-> <<>>, method |-> <<>>, headers |-> <<>>]

\* fetch(requestUrl, fetchOptions)
GraphCall(l, requestUrl) ==
    [kind |-> "graph", url |-> requestUrl, method |-> l.method,
     headers |-> FetchHeaders(l)]

\* a variant of the loop that puts a new page's items in front of the collection
PaginationStepPrepend(l, resp, isFirst) ==
    LET m == makeRequest(resp) IN
    IF m.kind = "threw" THEN [next |-> "done", out |-> m, loc |-> l]
    ELSE IF isFirst
    THEN IF l.allData /\ resp.hasValue /\ ~IsFalsy(resp.nextLink)
         THEN [next |-> "fetch", out |-> NoOutcome,
               loc |-> [l EXCEPT !.allItems = resp.value,
                                 !.nextLink = resp.nextLink, !.paging = TRUE]]
         ELSE [next |-> "done", out |-> m, loc |-> l]
    ELSE IF ~resp.hasValue
         THEN [next |-> "done", out |-> Threw(Msg("nextPage.value is not iterable")),
               loc |-> l]
    ELSE LET nl == [l EXCEPT !.allItems = resp.value \o l.allItems,
                             !.nextLink = resp.nextLink]
         IN IF ~IsFalsy(resp.nextLink)
            THEN [next |-> "fetch", out |-> NoOutcome, loc |-> nl]
            ELSE [next |-> "done", out |-> Returned(CombinedResult(nl.allItems)),
                  loc |-> nl]

\* a variant of the loop that returns what it has collected when a later page fails
PaginationStepPartial(l, resp, isFirst) ==
    LET m == makeRequest(resp) IN
    IF isFirst
    THEN IF m.kind = "threw" THEN [next |-> "done", out |-> m, loc |-> l]
         ELSE IF l.allData /\ resp.hasValue /\ ~IsFalsy(resp.nextLink)
         THEN [next |-> "fetch", out |-> NoOutcome,
               loc |-> [l EXCEPT !.allItems = resp.value,
                                 !.nextLink = resp.nextLink, !.paging = TRUE]]
         ELSE [next |-> "done", out |-> m, loc |-> l]
    ELSE IF m.kind = "threw" \/ ~resp.hasValue
         THEN [next |-> "done", out |-> Returned(CombinedResult(l.allItems)), loc |-> l]
    ELSE LET nl == [l EXCEPT !.allItems = l.allItems \o resp.value,
                             !.nextLink = resp.nextLink]
         IN IF ~IsFalsy(resp.nextLink)
            THEN [next |-> "fetch", out |-> NoOutcome, loc |-> nl]
            ELSE [next |-> "done", out |-> Returned(CombinedResult(nl.allItems)),
                  loc |-> nl]

\* a variant of the loop that stops after the second page whatever its next link
PaginationStepStopEarly(l, resp, isFirst) ==
    LET m == makeRequest(resp) IN
    IF m.kind = "threw" THEN [next |-> "done", out |-> m, loc |-> l]
    ELSE IF isFirst
    THEN IF l.allData /\ resp.hasValue /\ ~IsFalsy(resp.nextLink)
         THEN [next |-> "fetch", out |-> NoOutcome,
               loc |-> [l EXCEPT !.allItems = resp.value,
                                 !.nextLink = resp.nextLink, !.paging = TRUE]]
         ELSE [next |-> "done", out |-> m, loc |-> l]
    ELSE IF ~resp.hasValue
         THEN [next |-> "done", out |-> Threw(Msg("nextPage.value is not iterable")),
               loc |-> l]
    ELSE LET nl == [l EXCEPT !.allItems = l.allItems \o resp.value,
                             !.nextLink = resp.nextLink]
         IN [next |-> "done", out |-> Returned(CombinedResult(nl.allItems)), loc |-> nl]

\* a variant that wraps a single page like a collected one
PaginationStepWrapSingle(l, resp, isFirst) ==
    LET m == makeRequest(resp) IN
    IF m.kind = "threw" THEN [next |-> "done", out |-> m, loc |-> l]
    ELSE IF isFirst
    THEN IF l.allData /\ resp.hasValue /\ ~IsFalsy(resp.nextLink)
         THEN [next |-> "fetch", out |-> NoOutcome,
               loc |-> [l EXCEPT !.allItems = resp.value,
                                 !.nextLink = resp.nextLink, !.paging = TRUE]]
         ELSE IF resp.hasValue
         THEN [next |-> "done", out |-> Returned(CombinedResult(resp.value)), loc |-> l]
         ELSE [next |-> "done", out |-> m, loc |-> l]
    ELSE IF ~resp.hasValue
         THEN [next |-> "done", out |-> Threw(Msg("nextPage.value is not iterable")),
               loc |-> l]
    ELSE LET nl == [l EXCEPT !.allItems = l.allItems \o resp.value,
                             !.nextLink = resp.nextLink]
         IN IF ~IsFalsy(resp.nextLink)
            THEN [next |-> "fetch", out |-> NoOutcome, loc |-> nl]
            ELSE [next |-> "done", out |-> Returned(CombinedResult(nl.allItems)),
                  loc |-> nl]

\* a variant that requests the URL once more when the first request fails
PaginationStepRetryFirst(l, resp, isFirst) ==
    LET m == makeRequest(resp) IN
    IF m.kind = "threw" /\ isFirst
    THEN [next |-> "fetch", out |-> NoOutcome, loc |-> [l EXCEPT !.nextLink = l.url]]
    ELSE IF m.kind = "threw" THEN [next |-> "done", out |-> m, loc |-> l]
    ELSE IF isFirst
    THEN IF l.allData /\ resp.hasValue /\ ~IsFalsy(resp.nextLink)
         THEN [next |-> "fetch", out |-> NoOutcome,
               loc |-> [l EXCEPT !.allItems = resp.value,
                                 !.nextLink = resp.nextLink, !.paging = TRUE]]
         ELSE [next |-> "done", out |-> m, loc |-> l]
    ELSE IF ~resp.hasValue
         THEN [next |-> "done", out |-> Threw(Msg("nextPage.value is not iterable")),
               loc |-> l]
    ELSE LET nl == [l EXCEPT !.allItems = l.allItems \o resp.value,
                             !.nextLink = resp.nextLink]
         IN IF ~IsFalsy(resp.nextLink)
            THEN [next |-> "fetch", out |-> NoOutcome, loc |-> nl]
            ELSE [next |-> "done", out |-> Returned(CombinedResult(nl.allItems)),
                  loc |-> nl]

\* a variant of the loop that keeps following the first page's next link
PaginationStepStaleCursor(l, resp, isFirst) ==
    LET m == makeRequest(resp) IN
    IF m.kind = "threw" THEN [next |-> "done", out |-> m, loc |-> l]
    ELSE IF isFirst
    THEN IF l.allData /\ resp.hasValue /\ ~IsFalsy(resp.nextLink)
         THEN [next |-> "fetch", out |-> NoOutcome,
               loc |-> [l EXCEPT !.allItems = resp.value,
                                 !.nextLink = resp.nextLink, !.paging = TRUE]]
         ELSE [next |-> "done", out |-> m, loc |-> l]
    ELSE IF ~resp.hasValue
         THEN [next |-> "done", out |-> Threw(Msg("nextPage.value is not iterable")),
               loc |-> l]
    ELSE LET nl == [l EXCEPT !.allItems = l.allItems \o resp.value]
         IN IF ~IsFalsy(resp.nextLink)
            THEN [next |-> "fetch", out |-> NoOutcome, loc |-> nl]
            ELSE [next |-> "done", out |-> Returned(CombinedResult(nl.allItems)),
                  loc |-> nl]

\* graphQuery from a Graph response on: the first response decides between the raw
\* body and the accumulation loop, a later one is one turn of the loop
PaginationStep(l, resp, isFirst) ==
    LET m == makeRequest(resp) IN
    IF m.kind = "threw" THEN [next |-> "done", out |-> m, loc |-> l]
    ELSE IF isFirst
    THEN IF l.allData /\ resp.hasValue /\ ~IsFalsy(resp.nextLink)
         THEN [next |-> "fetch", out |-> NoOutcome,
               loc |-> [l EXCEPT !.allItems = resp.value,
                                 !.nextLink = resp.nextLink, !.paging = TRUE]]
         ELSE [next |-> "done", out |-> m, loc |-> l]
    ELSE IF ~resp.hasValue
         THEN [next |-> "done", out |-> Threw(Msg("nextPage.value is not iterable")),
               loc |-> l]
    ELSE LET nl == [l EXCEPT !.allItems = l.allItems \o resp.value,
                             !.nextLink = resp.nextLink]
         IN IF ~IsFalsy(resp.nextLink)
            THEN [next |-> "fetch", out |-> NoOutcome, loc |-> nl]
            ELSE [next |-> "done", out |-> Returned(CombinedResult(nl.allItems)),
                  loc |-> nl]

-----------------------------------------------------------------------------
(* POST /api/graph *)

\* the route's answer to what graphQuery returned or threw
RouteReply(out) ==
    IF out.kind = "returned" THEN ResultResponse(out.result)
    ELSE ErrorResponse(500, "Graph API Error", out.error)

\* the route's checks before it calls graphQuery: the response it sends, or
\* NoResponse when it goes on
RouteGate(d, context) ==
    IF IsFalsy(d.endpoint)
    THEN ErrorResponse(400, "Bad Request", Msg("Missing required fields"))
    ELSE IF ~hasPermission(context.permissions,
                           getPermissionForEndpoint(d.endpoint, d.method))
    THEN ErrorResponse(403, "Forbidden",
             [Msg("Missing required permission") EXCEPT
                 !.detail = getPermissionForEndpoint(d.endpoint, d.method)])
    ELSE NoResponse

-----------------------------------------------------------------------------
(* The requests the model serves *)

Endpoints ==
    {Undefined, <<>>, SlashUsers, <<"u","s","e","r","s">>, SlashUsers \o <<"/","7">>,
     SlashGroups, <<"/","m","e">>}

Methods == {Undefined, GET, <<"g","e","t">>, POST, PUT, PATCH, DELETE}

Versions == {Undefined, BETA, V1, V2}

\* a queryParams property: absent, or an object given by its entries
NoParams == [present |-> FALSE, entries |-> <<>>]
Params(entries) == [present |-> TRUE, entries |-> entries]

QueryParamSets == {NoParams, Params(<< [k |-> <<"$","t","o","p">>, v |-> <<"5">>] >>)}

AllDataValues == {"undefined", "false", "true"}

\* a headers property: absent, an object without an Authorization property, or
\* an object with one
HeaderSets ==
    {Params(<< [k |-> "X-Trace", v |-> "1"] >>),
     Params(<< [k |-> "Authorization", v |-> "Basic x"] >>)}

UserIds == {Undefined, <<"u","1">>}

\* the descriptors that carry headers
HeaderDescriptors ==
    [endpoint : {SlashUsers}, method : {Undefined, GET}, version : {Undefined},
     queryParams : {NoParams}, allData : {"undefined", "true"}, headers : HeaderSets]

Descriptors ==
    [endpoint : Endpoints, method : Methods, version : Versions,
     queryParams : QueryParamSets, allData : AllDataValues, headers : {NoParams}]
    \cup HeaderDescriptors

\* the requests in flight
Reqs == DOMAIN pc

SanIdle == sIn = <<>> /\ sOut = <<>> /\ sPc = "idle"

InitRequests(R) ==
    /\ entry \in [R -> {"route", "direct"}]
    /\ userId \in [R -> UserIds]
    /\ \A r \in R : entry[r] = "direct" => userId[r] = Undefined
    /\ desc \in [R -> Descriptors]
    /\ pc = [r \in R |-> IF entry[r] = "route" THEN "recv" ELSE "call"]
    /\ ctx = [r \in R |-> NoContext]
    /\ loc = [r \in R |-> NoLoc]
    /\ calls = [r \in R |-> <<>>]
    /\ received = [r \in R |-> <<>>]
    /\ outcome = [r \in R |-> NoOutcome]
    /\ response = [r \in R |-> NoResponse]

\* no POST /api/messages request
NoChat ==
    [pc |-> "idle", body |-> [kind |-> "absent", items |-> <<>>], call |-> "",
     status |-> 0, graphData |-> "none"]

\* no request at the Claude app
AppIdle ==
    /\ app = [pc |-> "idle", method |-> <<>>, route |-> "", json |-> FALSE,
              data |-> <<>>, read |-> 0, ended |-> FALSE, err |-> "none",
              bodySanitized |-> FALSE, body |-> "undefined", parsed |-> <<>>,
              status |-> 0]
    /\ chat = NoChat

Init == InitRequests({1}) /\ SanIdle /\ AppIdle

-----------------------------------------------------------------------------
(* Actions *)

\* graphQuery ends: the route, when it is the caller, answers
Finish(r, out) ==
    /\ outcome' = [outcome EXCEPT ![r] = out]
    /\ response' = [response EXCEPT
                       ![r] = IF entry[r] = "route" THEN RouteReply(out) ELSE @]
    /\ pc' = [pc EXCEPT ![r] = "done"]

\* the options object the route builds from the request body: endpoint, method,
\* version, body, queryParams and allData, and nothing else
RouteOptions(d) == [d EXCEPT !.headers = NoParams]

\* the options graphQuery is called with
Options(r) == IF entry[r] = "route" THEN RouteOptions(desc[r]) ELSE desc[r]

\* a variant that requests the token before it validates its options
BeginGraphQueryTokenFirst(r) ==
    IF ValidationError(desc[r]) # NoError
    THEN /\ Finish(r, Threw(ValidationError(desc[r])))
         /\ calls' = [calls EXCEPT ![r] = Append(@, TokenCall)]
         /\ UNCHANGED loc
    ELSE /\ loc' = [loc EXCEPT ![r] = Defaults(Options(r))]
         /\ calls' = [calls EXCEPT ![r] = Append(@, TokenCall)]
         /\ pc' = [pc EXCEPT ![r] = "awaitToken"]
         /\ UNCHANGED <<outcome, response>>

\* graphQuery up to its first await: validation, defaults, the token request
BeginGraphQuery(r) ==
    IF ValidationError(desc[r]) # NoError
    THEN /\ Finish(r, Threw(ValidationError(desc[r])))
         /\ UNCHANGED <<loc, calls>>
    ELSE /\ loc' = [loc EXCEPT ![r] = Defaults(Options(r))]
         /\ calls' = [calls EXCEPT ![r] = Append(@, TokenCall)]
         /\ pc' = [pc EXCEPT ![r] = "awaitToken"]
         /\ UNCHANGED <<outcome, response>>

\* the middleware that creates the MCP context of a request
Middleware(r) ==
    /\ pc[r] = "recv"
    /\ ctx' = [ctx EXCEPT ![r] = initialize(userId[r])]
    /\ pc' = [pc EXCEPT ![r] = "handler"]
    /\ UNCHANGED <<entry, userId, desc, loc, calls, received, outcome, response>>
    /\ UNCHANGED <<sanVars, appVars>>

\* app.post('/api/graph') up to its first await
PostApiGraph(r) ==
    /\ pc[r] = "handler"
    /\ IF RouteGate(desc[r], ctx[r]) # NoResponse
       THEN /\ response' = [response EXCEPT ![r] = RouteGate(desc[r], ctx[r])]
            /\ pc' = [pc EXCEPT ![r] = "done"]
            /\ UNCHANGED <<loc, calls, outcome>>
       ELSE BeginGraphQuery(r)
    /\ UNCHANGED <<entry, userId, desc, ctx, received>>
    /\ UNCHANGED <<sanVars, appVars>>

\* graphService.graphQuery(options) called on its own
GraphQueryCall(r) ==
    /\ pc[r] = "call"
    /\ BeginGraphQuery(r)
    /\ UNCHANGED <<entry, userId, desc, ctx, received>>
    /\ UNCHANGED <<sanVars, appVars>>

\* a variant that keeps graphQuery's locals in one place for all requests
TokenReturnsSharedLocals(r) ==
    /\ pc[r] = "awaitToken"
    /\ \E tok \in TokenResults :
          IF tok = ""
          THEN /\ Finish(r, Threw(Msg("token acquisition failed")))
               /\ UNCHANGED <<desc, loc, calls>>
          ELSE LET qp == WithConsistencyLevel(loc[r].queryParams)
                   l == [loc[r] EXCEPT
                            !.accessToken = tok,
                            !.queryParams = qp,
                            !.url = BuildUrl(loc[r].version, desc[r].endpoint, qp)]
               IN /\ loc' = [q \in Reqs |-> l]
                  /\ desc' = [desc EXCEPT ![r].queryParams =
                                 IF @.present THEN Params(qp) ELSE @]
                  /\ calls' = [calls EXCEPT ![r] = Append(@, GraphCall(l, l.url))]
                  /\ pc' = [pc EXCEPT ![r] = "awaitFetch"]
                  /\ UNCHANGED <<outcome, response>>
    /\ UNCHANGED <<entry, userId, ctx, received>>
    /\ UNCHANGED <<sanVars, appVars>>

\* a variant that issues the Graph request even when the token request failed
TokenReturnsThenFetch(r) ==
    /\ pc[r] = "awaitToken"
    /\ \E tok \in TokenResults :
          LET qp == WithConsistencyLevel(loc[r].queryParams)
              l == [loc[r] EXCEPT
                       !.accessToken = tok,
                       !.queryParams = qp,
                       !.url = BuildUrl(loc[r].version, desc[r].endpoint, qp)]
          IN /\ loc' = [loc EXCEPT ![r] = l]
             /\ desc' = [desc EXCEPT ![r].queryParams =
                            IF @.present THEN Params(qp) ELSE @]
             /\ calls' = [calls EXCEPT ![r] = Append(@, GraphCall(l, l.url))]
             /\ IF tok = ""
                THEN Finish(r, Threw(Msg("token acquisition failed")))
                ELSE /\ pc' = [pc EXCEPT ![r] = "awaitFetch"]
                     /\ UNCHANGED <<outcome, response>>
    /\ UNCHANGED <<entry, userId, ctx, received>>
    /\ UNCHANGED <<sanVars, appVars>>

\* the token request settles; on success graphQuery builds the URL and the fetch
\* options and issues the first Graph request
TokenReturns(r) ==
    /\ pc[r] = "awaitToken"
    /\ \E tok \in TokenResults :
          IF tok = ""
          THEN /\ Finish(r, Threw(Msg("token acquisition failed")))
               /\ UNCHANGED <<desc, loc, calls>>
          ELSE LET qp == WithConsistencyLevel(loc[r].queryParams)
                   l == [loc[r] EXCEPT
                            !.accessToken = tok,
                            !.queryParams = qp,
                            !.url = BuildUrl(loc[r].version, desc[r].endpoint, qp)]
               IN /\ loc' = [loc EXCEPT ![r] = l]
                  /\ desc' = [desc EXCEPT ![r].queryParams =
                                 IF @.present THEN Params(qp) ELSE @]
                  /\ calls' = [calls EXCEPT ![r] = Append(@, GraphCall(l, l.url))]
                  /\ pc' = [pc EXCEPT ![r] = "awaitFetch"]
                  /\ UNCHANGED <<outcome, response>>
    /\ UNCHANGED <<entry, userId, ctx, received>>
    /\ UNCHANGED <<sanVars, appVars>>

\* makeRequest has the whole response resp: graphQuery returns, throws, or
\* requests the next page
HandleResponse(r, resp) ==
    LET step == PaginationStep([loc[r] EXCEPT !.status = 0], resp, received[r] = <<>>) IN
    /\ received' = [received EXCEPT ![r] = Append(@, resp)]
    /\ loc' = [loc EXCEPT ![r] = step.loc]
    /\ IF step.next = "fetch"
       THEN /\ calls' = [calls EXCEPT
                            ![r] = Append(@, GraphCall(step.loc, step.loc.nextLink))]
            /\ pc' = [pc EXCEPT ![r] = "awaitFetch"]
            /\ UNCHANGED <<outcome, response>>
       ELSE /\ Finish(r, step.out)
            /\ UNCHANGED calls

\* await fetch(requestUrl, fetchOptions) settles with one of the responses the
\* upstream can give to this request of the call: the fetch is rejected, or the
\* response arrives with its status and makeRequest goes on to await its body
FetchSettles(r, responses) ==
    /\ pc[r] = "awaitFetch"
    /\ \E st \in {resp.status : resp \in responses} :
          IF st = 0
          THEN \E resp \in responses :
                  resp.status = 0 /\ HandleResponse(r, resp)
          ELSE /\ loc' = [loc EXCEPT ![r].status = st]
               /\ pc' = [pc EXCEPT ![r] = "awaitJson"]
               /\ UNCHANGED <<calls, received, outcome, response>>
    /\ UNCHANGED <<entry, userId, desc, ctx>>
    /\ UNCHANGED <<sanVars, appVars>>

\* await response.json() settles, with the body or with a rejection
JsonSettles(r, responses) ==
    /\ pc[r] = "awaitJson"
    /\ \E resp \in responses :
          resp.status = loc[r].status /\ HandleResponse(r, resp)
    /\ UNCHANGED <<entry, userId, desc, ctx>>
    /\ UNCHANGED <<sanVars, appVars>>

Next ==
    \/ \E r \in Reqs : Middleware(r)
    \/ \E r \in Reqs : PostApiGraph(r)
    \/ \E r \in Reqs : GraphQueryCall(r)
    \/ \E r \in Reqs : TokenReturns(r)
    \/ \E r \in Reqs : FetchSettles(r, GraphResponses(Len(received[r]) + 1))
    \/ \E r \in Reqs : JsonSettles(r, GraphResponses(Len(received[r]) + 1))

Spec == Init /\ [][Next]_vars

\* every outbound call settles and every handler step that can run does
FairSpec == Spec /\ WF_vars(Next)

\* the descriptors of two POST /api/graph requests served at the same time
PairFirst ==
    {[endpoint |-> SlashUsers, method |-> GET, version |-> Undefined,
      queryParams |-> NoParams, allData |-> "true", headers |-> NoParams]}

PairSecond ==
    {[endpoint |-> SlashGroups, method |-> GET, version |-> V1,
      queryParams |-> NoParams, allData |-> "true", headers |-> NoParams],
     [endpoint |-> SlashGroups, method |-> GET, version |-> V1,
      queryParams |-> Params(<< [k |-> <<"$","t","o","p">>, v |-> <<"5">>] >>),
      allData |-> "false", headers |-> NoParams],
     [endpoint |-> SlashGroups, method |-> POST, version |-> Undefined,
      queryParams |-> NoParams, allData |-> "false", headers |-> NoParams]}

\* two requests have arrived at POST /api/graph
PairInit ==
    /\ entry = [r \in {1, 2} |-> "route"]
    /\ \E u \in UserIds \ {Undefined} :
          userId = [r \in {1, 2} |-> IF r = 1 THEN u ELSE Undefined]
    /\ \E d1 \in PairFirst, d2 \in PairSecond :
          desc = [r \in {1, 2} |-> IF r = 1 THEN d1 ELSE d2]
    /\ InitRequests({1, 2})
    /\ SanIdle
    /\ AppIdle

\* the responses the upstream gives to the k-th Graph request of either of the
\* two requests: a page that is full or one short of full, with or without a
\* next link, a 503 with a body, and a network error
PairResponses(k) ==
    { resp \in GraphResponses(k) :
         \/ resp.status = 200 /\ resp.hasValue /\ Len(resp.value) >= MaxItems - 1
         \/ resp.status = 503 /\ resp.jsonOk
         \/ resp.status = 0 }

\* the steps of two requests that came in through the route
PairNext ==
    \/ \E r \in Reqs : Middleware(r)
    \/ \E r \in Reqs : PostApiGraph(r)
    \/ \E r \in Reqs : TokenReturns(r)
    \/ \E r \in Reqs : FetchSettles(r, PairResponses(Len(received[r]) + 1))
    \/ \E r \in Reqs : JsonSettles(r, PairResponses(Len(received[r]) + 1))

\* the steps of requests that came in through the route
TwinNext ==
    \/ \E r \in Reqs : Middleware(r)
    \/ \E r \in Reqs : PostApiGraph(r)
    \/ \E r \in Reqs : TokenReturns(r)
    \/ \E r \in Reqs : FetchSettles(r, GraphResponses(Len(received[r]) + 1))
    \/ \E r \in Reqs : JsonSettles(r, GraphResponses(Len(received[r]) + 1))

PairSpec == PairInit /\ [][PairNext]_vars

\* the X-User-ID headers of two requests from different users
TwinUserIds == {Undefined, <<"u","1">>, <<"u","2">>}

\* the bodies of the twin requests
TwinDescriptors ==
    [endpoint : {Undefined, SlashUsers, <<"u","s","e","r","s">>, SlashGroups,
                 <<"/","m","e">>},
     method : {Undefined, GET, POST}, version : {Undefined, V2},
     queryParams : {NoParams}, allData : {"false"}, headers : {NoParams}]

\* two requests with the same body and different X-User-ID headers have arrived
\* at POST /api/graph
TwinInit ==
    /\ entry = [r \in {1, 2} |-> "route"]
    /\ \E u1 \in TwinUserIds, u2 \in TwinUserIds :
          /\ u1 # u2
          /\ userId = [r \in {1, 2} |-> IF r = 1 THEN u1 ELSE u2]
    /\ \E d \in TwinDescriptors : desc = [r \in {1, 2} |-> d]
    /\ pc = [r \in {1, 2} |-> "recv"]
    /\ ctx = [r \in {1, 2} |-> NoContext]
    /\ loc = [r \in {1, 2} |-> NoLoc]
    /\ calls = [r \in {1, 2} |-> <<>>]
    /\ received = [r \in {1, 2} |-> <<>>]
    /\ outcome = [r \in {1, 2} |-> NoOutcome]
    /\ response = [r \in {1, 2} |-> NoResponse]
    /\ SanIdle
    /\ AppIdle

TwinSpec == TwinInit /\ [][TwinNext]_vars

-----------------------------------------------------------------------------
(* JSON.parse, as far as sanitizeJsonString uses it: does the text parse *)

\* the character at position i, "" past either end
At(s, i) == IF i >= 1 /\ i <= Len(s) THEN s[i] ELSE ""

JsonWhitespace == {" ", "\t", "\n", "\r"}

Digits == {DigitChars[i] : i \in 1..10}

HexDigits == Digits \cup {"a","b","c","d","e","f","A","B","C","D","E","F"}

RECURSIVE SkipWs(_, _)
SkipWs(s, i) == IF At(s, i) \in JsonWhitespace THEN SkipWs(s, i + 1) ELSE i

RECURSIVE SkipDigits(_, _)
SkipDigits(s, i) == IF At(s, i) \in Digits THEN SkipDigits(s, i + 1) ELSE i

\* the position after the closing quote of the string whose body starts at i; 0
\* when the text is no string
RECURSIVE StringBody(_, _)
StringBody(s, i) ==
    LET c == At(s, i) IN
    IF c = "" THEN 0
    ELSE IF c = "\"" THEN i + 1
    ELSE IF c = "\\"
         THEN IF At(s, i + 1) \in {"\"", "\\", "/", "b", "f", "n", "r", "t"}
              THEN StringBody(s, i + 2)
              ELSE IF /\ At(s, i + 1) = "u"
                      /\ \A k \in 2..5 : At(s, i + k) \in HexDigits
                   THEN StringBody(s, i + 6)
                   ELSE 0
    ELSE IF c \in {"\t", "\n", "\r"} THEN 0
    ELSE StringBody(s, i + 1)

\* the position after the number that starts at i; 0 when there is none
ParseNumber(s, i) ==
    LET i1 == IF At(s, i) = "-" THEN i + 1 ELSE i
        i2 == IF At(s, i1) = "0" THEN i1 + 1
              ELSE IF At(s, i1) \in Digits THEN SkipDigits(s, i1 + 1)
              ELSE 0
        i3 == IF i2 = 0 THEN 0
              ELSE IF At(s, i2) = "."
                   THEN IF At(s, i2 + 1) \in Digits THEN SkipDigits(s, i2 + 2) ELSE 0
              ELSE i2
        k  == IF At(s, i3 + 1) \in {"+", "-"} THEN i3 + 2 ELSE i3 + 1
    IN IF i3 = 0 THEN 0
       ELSE IF At(s, i3) \in {"e", "E"}
            THEN IF At(s, k) \in Digits THEN SkipDigits(s, k + 1) ELSE 0
       ELSE i3

\* the position after the literal word at i; 0 when it is not there
ParseLiteral(s, i, word) ==
    IF i + Len(word) - 1 <= Len(s) /\ SubSeq(s, i, i + Len(word) - 1) = word
    THEN i + Len(word) ELSE 0

RECURSIVE ParseValue(_, _)
RECURSIVE ParseElements(_, _, _)
RECURSIVE ParseMembers(_, _, _)

\* the position after the JSON value that starts at i; 0 when there is none
ParseValue(s, i) ==
    LET c == At(s, i) IN
    IF c = "{" THEN ParseMembers(s, SkipWs(s, i + 1), TRUE)
    ELSE IF c = "[" THEN ParseElements(s, SkipWs(s, i + 1), TRUE)
    ELSE IF c = "\"" THEN StringBody(s, i + 1)
    ELSE IF c = "-" \/ c \in Digits THEN ParseNumber(s, i)
    ELSE IF c = "t" THEN ParseLiteral(s, i, <<"t","r","u","e">>)
    ELSE IF c = "f" THEN ParseLiteral(s, i, <<"f","a","l","s","e">>)
    ELSE IF c = "n" THEN ParseLiteral(s, i, <<"n","u","l","l">>)
    ELSE 0

\* the elements of an array up to and including its "]"
ParseElements(s, i, first) ==
    IF first /\ At(s, i) = "]" THEN i + 1
    ELSE LET e == ParseValue(s, i)
             k == SkipWs(s, e)
         IN IF e = 0 THEN 0
            ELSE IF At(s, k) = "," THEN ParseElements(s, SkipWs(s, k + 1), FALSE)
            ELSE IF At(s, k) = "]" THEN k + 1
            ELSE 0

\* the members of an object up to and including its "}"
ParseMembers(s, i, first) ==
    IF first /\ At(s, i) = "}" THEN i + 1
    ELSE IF At(s, i) # "\"" THEN 0
    ELSE LET ke == StringBody(s, i + 1)
             c  == SkipWs(s, ke)
             v  == ParseValue(s, SkipWs(s, c + 1))
             k  == SkipWs(s, v)
         IN IF ke = 0 \/ At(s, c) # ":" \/ v = 0 THEN 0
            ELSE IF At(s, k) = "," THEN ParseMembers(s, SkipWs(s, k + 1), FALSE)
            ELSE IF At(s, k) = "}" THEN k + 1
            ELSE 0

\* JSON.parse(s) does not throw
JsonParses(s) ==
    LET e == ParseValue(s, SkipWs(s, 1))
    IN e # 0 /\ SkipWs(s, e) = Len(s) + 1

-----------------------------------------------------------------------------
(* sanitizeJsonString *)

\* /\s/ on the characters the model uses
IsSpace(c) == c \in {" ", "\t", "\n", "\r"}

\* /[a-zA-Z0-9_$]/
IsIdentChar(c) ==
    \/ \E i \in 1..26 : c = LowerCaseLetters[i] \/ c = UpperCaseLetters[i]
    \/ c \in Digits
    \/ c \in {"_", "$"}

RECURSIVE TrimLeft(_)
TrimLeft(s) == IF s # <<>> /\ IsSpace(Head(s)) THEN TrimLeft(Tail(s)) ELSE s

RECURSIVE TrimRight(_)
TrimRight(s) ==
    IF s # <<>> /\ IsSpace(s[Len(s)]) THEN TrimRight(SubSeq(s, 1, Len(s) - 1)) ELSE s

\* String.prototype.trim
Trim(s) == TrimRight(TrimLeft(s))

\* String.prototype.endsWith
EndsWith(s, p) == Len(s) >= Len(p) /\ SubSeq(s, Len(s) - Len(p) + 1, Len(s)) = p

\* a variant that trims every input, wrapped in single quotes or not
StripOuterQuotesTrimmed(input) ==
    IF StartsWith(Trim(input), <<"'">>) /\ EndsWith(Trim(input), <<"'">>)
    THEN SubSeq(Trim(input), 2, Len(Trim(input)) - 1)
    ELSE Trim(input)

\* the reassignment of input when it is wrapped in single quotes
StripOuterQuotes(input) ==
    IF StartsWith(Trim(input), <<"'">>) /\ EndsWith(Trim(input), <<"'">>)
    THEN SubSeq(Trim(input), 2, Len(Trim(input)) - 1)
    ELSE input

\* the last position at or before j that holds no whitespace; 0 when there is none
RECURSIVE SkipSpaceBack(_, _)
SkipSpaceBack(result, j) ==
    IF j >= 1 /\ IsSpace(result[j]) THEN SkipSpaceBack(result, j - 1) ELSE j

\* the last position at or before j that holds no identifier character
RECURSIVE SkipIdentBack(_, _)
SkipIdentBack(result, j) ==
    IF j >= 1 /\ IsIdentChar(result[j]) THEN SkipIdentBack(result, j - 1) ELSE j

\* the backward look at a ':' outside double quotes: wrap the property name
\* before it in double quotes unless a double quote precedes the name
QuotePropName(result) ==
    LET e == SkipSpaceBack(result, Len(result))
        j == SkipIdentBack(result, e)
        propName == SubSeq(result, j + 1, e)
    IN IF propName # <<>> /\ j >= 1 /\ result[j] # "\""
       THEN SubSeq(result, 1, j) \o <<"\"">> \o propName \o <<"\"">>
            \o SubSeq(result, e + 1, Len(result))
       ELSE result

\* the scan's state before the loop
ScanStart == [inDoubleQuotes |-> FALSE, result |-> <<>>]

\* a variant of the loop body that leaves single quotes as they are
ScanStepKeepSingleQuotes(st, input, i) ==
    IF input[i] = "\"" /\ (i = 1 \/ input[i - 1] # "\\")
    THEN [inDoubleQuotes |-> ~st.inDoubleQuotes, result |-> Append(st.result, input[i])]
    ELSE IF input[i] = ":" /\ ~st.inDoubleQuotes
    THEN [st EXCEPT !.result = Append(QuotePropName(st.result), input[i])]
    ELSE [st EXCEPT !.result = Append(st.result, input[i])]

\* one turn of the scan loop, at the character in position i
ScanStep(st, input, i) ==
    IF input[i] = "\"" /\ (i = 1 \/ input[i - 1] # "\\")
    THEN [inDoubleQuotes |-> ~st.inDoubleQuotes, result |-> Append(st.result, input[i])]
    ELSE IF input[i] = "'" /\ ~st.inDoubleQuotes
    THEN [st EXCEPT !.result = Append(st.result, "\"")]
    ELSE IF input[i] = ":" /\ ~st.inDoubleQuotes
    THEN [st EXCEPT !.result = Append(QuotePropName(st.result), input[i])]
    ELSE [st EXCEPT !.result = Append(st.result, input[i])]

\* the scan's state after the turns for positions lo..hi, from state st; the
\* range is done in halves, the left one first, which keeps the evaluation shallow
RECURSIVE ScanRange(_, _, _, _)
ScanRange(st, input, lo, hi) ==
    IF lo > hi THEN st
    ELSE IF lo = hi THEN ScanStep(st, input, lo)
    ELSE LET left == ScanRange(st, input, lo, (lo + hi) \div 2)
         IN IF left.inDoubleQuotes \in BOOLEAN
            THEN ScanRange(left, input, (lo + hi) \div 2 + 1, hi)
            ELSE left

\* the scan loop: the rewritten text
Scan(input) == ScanRange(ScanStart, input, 1, Len(input)).result

\* String.prototype.includes
Includes(s, p) == \E i \in 1..(Len(s) - Len(p) + 1) : SubSeq(s, i, i + Len(p) - 1) = p

\* one position of a global replace of literal characters: skip counts the
\* characters of a match still to pass over
ReplaceStep(st, s, i, pat, rep) ==
    IF st.skip > 0 THEN [st EXCEPT !.skip = @ - 1]
    ELSE IF i + Len(pat) - 1 <= Len(s) /\ SubSeq(s, i, i + Len(pat) - 1) = pat
    THEN [skip |-> Len(pat) - 1, out |-> st.out \o rep]
    ELSE [st EXCEPT !.out = Append(@, s[i])]

RECURSIVE ReplaceRange(_, _, _, _, _, _)
ReplaceRange(st, s, lo, hi, pat, rep) ==
    IF lo > hi THEN st
    ELSE IF lo = hi THEN ReplaceStep(st, s, lo, pat, rep)
    ELSE LET left == ReplaceRange(st, s, lo, (lo + hi) \div 2, pat, rep)
         IN IF left.skip >= 0
            THEN ReplaceRange(left, s, (lo + hi) \div 2 + 1, hi, pat, rep)
            ELSE left

\* String.prototype.replace with a global pattern of literal characters
ReplaceAll(s, pat, rep) ==
    ReplaceRange([skip |-> 0, out |-> <<>>], s, 1, Len(s), pat, rep).out

BraceMessages == <<"{","m","e","s","s","a","g","e","s",":">>
QuotedMessages == <<"\"","m","e","s","s","a","g","e","s","\"",":">>

\* the special case for the {messages: [...]} format
FixMessages(result) ==
    IF Includes(result, QuotedMessages) \/ Includes(result, BraceMessages)
    THEN ReplaceAll(ReplaceAll(result, BraceMessages, <<"{">> \o QuotedMessages),
                    QuotedMessages, QuotedMessages)
    ELSE result

\* sanitizeJsonString(input) for a string input
sanitizeJsonString(input) ==
    LET stripped == StripOuterQuotes(input)
        result == FixMessages(Scan(stripped))
    IN IF JsonParses(stripped) THEN stripped
       ELSE IF JsonParses(result) THEN result
       ELSE stripped

-----------------------------------------------------------------------------
(* The strings the repair is called with *)

\* the contents of keys and string values: letters, digits and spaces
Words == {<<>>, <<"a">>, <<"h","i">>, <<"a"," ","b">>, <<"7">>}

Keys == {<<"a">>, <<"k","1">>, <<"m","e","s","s","a","g","e","s">>}

SingleQuoted(w) == <<"'">> \o w \o <<"'">>

\* scalar values: single-quoted strings, a number, a literal
Scalars == {SingleQuoted(w) : w \in Words} \cup {<<"1">>, <<"t","r","u","e">>}

\* the ways the text separates a key from its value
Colons == {<<":">>, <<":"," ">>, <<" ",":"," ">>}

ObjectTexts ==
    { <<"{">> \o SingleQuoted(k) \o c \o v \o <<"}">> :
        k \in Keys, c \in Colons, v \in Scalars }

TwoMemberTexts ==
    { <<"{">> \o SingleQuoted(<<"a">>) \o <<":"," ">> \o v \o <<","," ">>
      \o SingleQuoted(<<"b">>) \o <<":">> \o w \o <<"}">> :
        v \in Scalars, w \in Scalars }

ArrayTexts ==
    { <<"[">> \o v \o <<"]">> : v \in Scalars }
    \cup { <<"[">> \o v \o <<","," ">> \o w \o <<"]">> : v \in Scalars, w \in Scalars }

NestedTexts ==
    { <<"{">> \o SingleQuoted(k) \o <<":"," ","[">> \o o \o <<"]","}">> :
        k \in Keys, o \in { <<"{">> \o SingleQuoted(<<"a">>) \o <<":"," ">> \o v \o <<"}">> :
                              v \in Scalars } }

\* {'messages': [{'role': 'user', 'content': 'hi'}]}
MessagesExample ==
    <<"{","'","m","e","s","s","a","g","e","s","'",":"," ","[","{",
      "'","r","o","l","e","'",":"," ","'","u","s","e","r","'",","," ",
      "'","c","o","n","t","e","n","t","'",":"," ","'","h","i","'","}","]","}">>

\* {"messages":[{"role":"user","content":"hi"}]}
MessagesExampleJson ==
    <<"{","\"","m","e","s","s","a","g","e","s","\"",":","[","{",
      "\"","r","o","l","e","\"",":","\"","u","s","e","r","\"",",",
      "\"","c","o","n","t","e","n","t","\"",":","\"","h","i","\"","}","]","}">>

\* a text with whitespace around it
Padded(t) == <<" ">> \o t \o <<" ">>

\* JSON-like texts whose only string delimiters are single quotes
SingleQuotedTexts ==
    LET texts == Scalars \cup ObjectTexts \cup TwoMemberTexts \cup ArrayTexts
                 \cup NestedTexts \cup {MessagesExample}
    IN texts \cup {Padded(t) : t \in Scalars \cup ObjectTexts}

DoubleQuoted(w) == <<"\"">> \o w \o <<"\"">>

\* a key as the text writes it: in double quotes, or bare
KeyText(k, quoted) == IF quoted THEN DoubleQuoted(k) ELSE k

\* the contents of JSON strings, in their escaped form: plain words, a colon,
\* a single quote, an escaped double quote, an escaped backslash
StringBodies ==
    {<<"u">>, <<"a"," ","b">>, <<"x",":","y">>, <<"i","t","'","s">>,
     <<"\\","\"">>, <<"\\","\\">>}

\* JSON values: strings, a number, a literal, an empty object
JsonValues ==
    {DoubleQuoted(b) : b \in StringBodies} \cup {<<"1">>, <<"t","r","u","e">>, <<"{","}">>}

BareKeys == {<<"a">>, <<"k","_","1">>, <<"$","b">>}

\* {k1: v1, k2: v2}, each key in double quotes or bare
TwoKeyText(k1, q1, c, v1, k2, q2, v2) ==
    <<"{">> \o KeyText(k1, q1) \o c \o v1 \o <<","," ">>
    \o KeyText(k2, q2) \o <<":"," ">> \o v2 \o <<"}">>

\* JSON texts with one or two bare keys, each with the text that has the keys
\* in double quotes
TwoKeyCases ==
    { [in   |-> TwoKeyText(k1, q1, c, v1, <<"z">>, q2, v2),
       want |-> TwoKeyText(k1, TRUE, c, v1, <<"z">>, TRUE, v2)] :
        k1 \in BareKeys, q1 \in BOOLEAN, c \in {<<":">>, <<" ",":"," ">>},
        v1 \in JsonValues, q2 \in BOOLEAN, v2 \in {<<"1">>, DoubleQuoted(<<"u">>)} }

\* {"messages": [{role: "user", content: "Hello Claude"}]}
BareKeysExample ==
    <<"{","\"","m","e","s","s","a","g","e","s","\"",":"," ","[","{",
      "r","o","l","e",":"," ","\"","u","s","e","r","\"",","," ",
      "c","o","n","t","e","n","t",":"," ",
      "\"","H","e","l","l","o"," ","C","l","a","u","d","e","\"","}","]","}">>

\* {"messages": [{"role": "user", "content": "Hello Claude"}]}
BareKeysExampleJson ==
    <<"{","\"","m","e","s","s","a","g","e","s","\"",":"," ","[","{",
      "\"","r","o","l","e","\"",":"," ","\"","u","s","e","r","\"",","," ",
      "\"","c","o","n","t","e","n","t","\"",":"," ",
      "\"","H","e","l","l","o"," ","C","l","a","u","d","e","\"","}","]","}">>

\* {messages: [{role: "user"}]}
BraceMessagesExample ==
    <<"{","m","e","s","s","a","g","e","s",":"," ","[","{",
      "r","o","l","e",":"," ","\"","u","s","e","r","\"","}","]","}">>

BraceMessagesExampleJson ==
    <<"{","\"","m","e","s","s","a","g","e","s","\"",":"," ","[","{",
      "\"","r","o","l","e","\"",":"," ","\"","u","s","e","r","\"","}","]","}">>

\* {name: "O'Brien: x"}
NameExample ==
    <<"{","n","a","m","e",":"," ","\"","O","'","B","r","i","e","n",":"," ","x","\"","}">>

\* {"name": "O'Brien: x"}
NameExampleJson ==
    <<"{","\"","n","a","m","e","\"",":"," ",
      "\"","O","'","B","r","i","e","n",":"," ","x","\"","}">>

BareKeyCases ==
    TwoKeyCases
    \cup {[in |-> BareKeysExample, want |-> BareKeysExampleJson],
          [in |-> BraceMessagesExample, want |-> BraceMessagesExampleJson],
          [in |-> NameExample, want |-> NameExampleJson]}

\* the texts with at least one bare key
BareKeyTexts == {c.in : c \in {d \in BareKeyCases : d.in # d.want}}

\* valid JSON texts
ValidJsonTexts ==
    LET texts == JsonValues \cup {c.want : c \in BareKeyCases}
                 \cup {MessagesExampleJson, <<"[","]">>,
                       <<"[","1",","," ","\"","'","\"","]">>}
    IN texts \cup {Padded(t) : t \in JsonValues}

\* texts no repair turns into JSON: unbalanced brackets, a missing value, a
\* bare word, with and without single quotes and whitespace around them
BrokenTexts ==
    LET texts == {<<"{">>, <<"[","1",","," ","2">>, <<"{","'","a","'",":"," ","}">>,
                  <<"{","a",":"," ","1">>, <<"h","i">>, <<"}","{">>}
    IN texts \cup {SingleQuoted(t) : t \in texts} \cup {Padded(t) : t \in texts}
       \cup {Padded(SingleQuoted(t)) : t \in texts}

\* {'a': "\\", "b": "', 'c': '"}
EscapedBackslashExample ==
    <<"{","'","a","'",":"," ","\"","\\","\\","\"",","," ",
      "\"","b","\"",":"," ","\"","'",","," ","'","c","'",":"," ","'","\"","}">>

\* {a: "\\", b: "it's"}
EscapedBackslashBareKeys ==
    <<"{","a",":"," ","\"","\\","\\","\"",","," ",
      "b",":"," ","\"","i","t","'","s","\"","}">>

\* texts that mix quoting styles after a string ending in an escaped backslash
MixedTexts == {EscapedBackslashExample, EscapedBackslashBareKeys}

\* texts wrapped in single quotes twice: ''hi'', ''{'a': 1}''
NestedQuoteTexts ==
    {SingleQuoted(SingleQuoted(t)) :
        t \in {<<"h","i">>, <<"{","'","a","'",":"," ","1","}">>}}

\* single-quoted values that hold a colon: after a word that follows a space,
\* and right after the word that starts the value
ColonValues ==
    {<<"s","e","e"," ","h","t","t","p",":","/","/","x">>, <<"a"," ","b",":"," ","c">>,
     <<"h","t","t","p",":","/","/","x">>, <<"a",":","b">>}

\* {'q': 'see http://x'} and its like
ColonValueTexts ==
    {<<"{">> \o SingleQuoted(<<"q">>) \o <<":"," ">> \o SingleQuoted(v) \o <<"}">> :
        v \in ColonValues}

SanInputs ==
    SingleQuotedTexts \cup BareKeyTexts \cup ValidJsonTexts \cup BrokenTexts
    \cup MixedTexts \cup NestedQuoteTexts \cup ColonValueTexts

SanInit ==
    /\ InitRequests({})
    /\ AppIdle
    /\ sIn \in SanInputs
    /\ sOut = <<>>
    /\ sPc = "ready"

\* one call of sanitizeJsonString
Sanitize ==
    /\ sPc = "ready"
    /\ sOut' = sanitizeJsonString(sIn)
    /\ sPc' = "done"
    /\ UNCHANGED sIn
    /\ UNCHANGED <<srvVars, appVars>>

SanNext == Sanitize

SanSpec == SanInit /\ [][SanNext]_vars

-----------------------------------------------------------------------------
(* The Claude app: body middleware and routes *)

\* the routes of the app: app.post, app.get and app.patch registrations
AppRoutes ==
    {[method |-> POST, path |-> "/api/debug"],
     [method |-> POST, path |-> "/api/process-message"],
     [method |-> POST, path |-> "/api/messages"],
     [method |-> POST, path |-> "/api/graph-query"],
     [method |-> GET, path |-> "/api/users"],
     [method |-> GET, path |-> "/api/groups"],
     [method |-> GET, path |-> "/health"],
     [method |-> GET, path |-> "/api/test-data"],
     [method |-> POST, path |-> "/api/users"],
     [method |-> PATCH, path |-> "/api/users/:userId"]}

\* bodies that parse to a value /api/graph-query cannot read an endpoint from:
\* null, and objects whose endpoint is not a string
UnreadableOptions ==
    {<<"n","u","l","l">>,
     <<"{">> \o DoubleQuoted(<<"e","n","d","p","o","i","n","t">>) \o <<":"," ","5","}">>,
     <<"{">> \o SingleQuoted(<<"e","n","d","p","o","i","n","t">>)
             \o <<":"," ","t","r","u","e","}">>}

\* blank bodies: no data at all, and white space
BlankBodies == {<<>>, <<" ">>}

\* the request bodies: texts the repair turns into JSON, JSON, texts it cannot
\* repair, and blank ones
AppBodies ==
    {MessagesExample, MessagesExampleJson, BareKeysExample, <<"{","}">>}
    \cup BrokenTexts
    \cup UnreadableOptions
    \cup BlankBodies
    \cup {<<"{">> \o SingleQuoted(<<"a">>) \o <<":"," ">> \o v \o <<"}">> : v \in Scalars}

\* a request arrives, with content-type application/json or another one;
\* nothing of its body has been read
AppInit ==
    /\ InitRequests({})
    /\ SanIdle
    /\ \E route \in AppRoutes, json \in BOOLEAN, data \in AppBodies :
             app = [pc |-> "sanitize", method |-> route.method, route |-> route.path,
                    json |-> json, data |-> data, read |-> 0, ended |-> FALSE,
                    err |-> "none",
                    bodySanitized |-> FALSE, body |-> "undefined", parsed |-> <<>>,
                    status |-> 0]
    /\ chat = NoChat

\* sanitizeRequestBody up to its return: on POST, PUT and PATCH with
\* content-type application/json it registers its listeners and waits for the
\* body; every other request is passed on at once
SanitizeRequestBody ==
    /\ app.pc = "sanitize"
    /\ app' = IF app.method \in {POST, PUT, PATCH} /\ app.json
              THEN [app EXCEPT !.pc = "awaitBody"]
              ELSE [app EXCEPT !.pc = "parser"]
    /\ UNCHANGED <<srvVars, sanVars, chat>>

\* where the chunk that starts after the first `read` characters can end: at
\* the end of the body, or in its middle
ChunkEnds(data, read) ==
    {Len(data)} \cup (IF read < Len(data) \div 2 THEN {Len(data) \div 2} ELSE {})

\* the data listener: one more chunk of the body is appended to what was read
BodyData ==
    /\ app.pc \in {"awaitBody", "awaitParser"}
    /\ ~app.ended
    /\ app.read < Len(app.data)
    /\ \E n \in ChunkEnds(app.data, app.read) : app' = [app EXCEPT !.read = n]
    /\ UNCHANGED <<srvVars, sanVars, chat>>

\* data && data.trim().length > 0
NotBlank(data) == data # <<>> /\ Trim(data) # <<>>

\* the end listener of sanitizeRequestBody: data that is not blank is repaired,
\* bodySanitized is set and, when the repaired text parses, it becomes
\* req.body; blank data leaves the request as it is. The stream has ended
\* either way
BodyEnds ==
    /\ app.pc = "awaitBody"
    /\ ~app.ended
    /\ app.read = Len(app.data)
    /\ LET data == SubSeq(app.data, 1, app.read)
           sanitized == sanitizeJsonString(data)
       IN app' = IF NotBlank(data)
                 THEN [app EXCEPT !.pc = "parser",
                                  !.ended = TRUE,
                                  !.bodySanitized = TRUE,
                                  !.body = IF JsonParses(sanitized)
                                           THEN "parsed" ELSE "undefined",
                                  !.parsed = IF JsonParses(sanitized)
                                             THEN sanitized ELSE <<>>]
                 ELSE [app EXCEPT !.pc = "parser", !.ended = TRUE]
    /\ UNCHANGED <<srvVars, sanVars, chat>>

\* the request stream fails while the body is read: the error passes
\* jsonErrorHandler, which hands on what is not a parse error, and the global
\* error handler answers 500
StreamError ==
    /\ app.pc \in {"awaitBody", "awaitParser"}
    /\ ~app.ended
    /\ app' = [app EXCEPT !.pc = "done", !.err = "stream", !.status = 500]
    /\ UNCHANGED <<srvVars, sanVars, chat>>

\* what express.json leaves in req.body when the content type is not JSON:
\* the empty object, or nothing, depending on the version of the parser
SkippedBodies == {"empty", "undefined"}

\* the middleware around express.json up to its return: skipped when the body
\* was sanitized. Otherwise express.json runs: it passes on a request without a
\* body or of another content type and starts to read a body of content type
\* JSON. On a stream the sanitizer has read to its end (a blank body) the
\* version of the parser decides between the two
BodyParser ==
    /\ app.pc = "parser"
    /\ IF app.bodySanitized
       THEN app' = [app EXCEPT !.pc = "route"]
       ELSE IF app.ended
       THEN \/ \E body \in SkippedBodies :
                  app' = [app EXCEPT !.pc = "route", !.body = body]
            \/ app' = [app EXCEPT !.pc = "awaitParser"]
       ELSE IF app.json /\ app.data # <<>>
       THEN app' = [app EXCEPT !.pc = "awaitParser"]
       ELSE \E body \in SkippedBodies : app' = [app EXCEPT !.pc = "route", !.body = body]
    /\ UNCHANGED <<srvVars, sanVars, chat>>

\* express.json finds that the stream it was to read has ended: its error is
\* no parse error, so the global error handler answers 500. Where the parser
\* does not notice, the request stays without a response
ParserRejects ==
    /\ app.pc = "awaitParser"
    /\ app.ended
    /\ app' = [app EXCEPT !.pc = "done", !.err = "parser", !.status = 500]
    /\ UNCHANGED <<srvVars, sanVars, chat>>

\* express.json in its strict mode accepts a text that is JSON and starts, after
\* white space, with a brace or a bracket
StrictJsonParses(s) ==
    /\ JsonParses(s)
    /\ TrimLeft(s) # <<>>
    /\ Head(TrimLeft(s)) \in {"{", "["}

\* express.json has read the body: a text it accepts becomes req.body; for
\* every other text its parse error reaches jsonErrorHandler, which repairs the
\* raw body and passes the request on, or answers 400 when the repaired text
\* does not parse
ParserEnds ==
    /\ app.pc = "awaitParser"
    /\ ~app.ended
    /\ app.read = Len(app.data)
    /\ LET rawBody == SubSeq(app.data, 1, app.read)
           sanitized == sanitizeJsonString(rawBody)
       IN app' = IF StrictJsonParses(rawBody)
                 THEN [app EXCEPT !.pc = "route", !.body = "parsed", !.parsed = rawBody]
                 ELSE IF JsonParses(sanitized)
                 THEN [app EXCEPT !.pc = "route", !.body = "parsed", !.parsed = sanitized]
                 ELSE [app EXCEPT !.pc = "done", !.status = 400]
    /\ UNCHANGED <<srvVars, sanVars, chat>>

\* what the client sees when a handler's promise rejects outside its try
\* block: no response (0) where the framework leaves the rejection alone, 500
\* from the global error handler where it passes the rejection on
RejectedStatuses == {0, 500}

\* the statuses a handler answers with without calling the MCP server; for a
\* parsed body the body's content decides which: /api/graph-query answers 500
\* when the body is null or its endpoint is not a string
DirectStatuses(route, body) ==
    CASE route \in {"/api/debug", "/health", "/api/test-data"} -> {200}
      [] route = "/api/process-message" ->
            IF body = "parsed" THEN {200, 400, 500} ELSE {400}
      [] route = "/api/messages" ->
            IF body = "parsed" THEN {200, 400} \cup RejectedStatuses ELSE {400}
      [] route = "/api/graph-query" -> IF body = "empty" THEN {} ELSE {500}
      [] OTHER -> {}

\* the handler can come to call the MCP server and await its answer
CallsMcp(route, body) ==
    CASE route \in {"/api/debug", "/health", "/api/test-data"} -> FALSE
      [] route \in {"/api/process-message", "/api/messages"} -> body = "parsed"
      [] route = "/api/graph-query" -> body # "undefined"
      [] OTHER -> TRUE

\* the statuses a handler answers with once the call to the MCP server has
\* settled: /api/process-message and /api/messages answer 200 also when the
\* call failed
McpStatuses(route) ==
    IF route \in {"/api/process-message", "/api/messages"} THEN {200} ELSE {200, 500}

\* the route handler up to its answer or to its await of the MCP server
AppRoute ==
    /\ app.pc = "route"
    /\ \/ \E status \in DirectStatuses(app.route, app.body) :
             app' = [app EXCEPT !.pc = "done", !.status = status]
       \/ /\ CallsMcp(app.route, app.body)
          /\ app' = [app EXCEPT !.pc = "awaitMcp"]
    /\ UNCHANGED <<srvVars, sanVars, chat>>

\* the call to the MCP server settles and the handler answers
AppMcpSettles ==
    /\ app.pc = "awaitMcp"
    /\ \E status \in McpStatuses(app.route) :
          app' = [app EXCEPT !.pc = "done", !.status = status]
    /\ UNCHANGED <<srvVars, sanVars, chat>>

AppNext ==
    \/ SanitizeRequestBody
    \/ BodyData
    \/ BodyEnds
    \/ StreamError
    \/ BodyParser
    \/ ParserEnds
    \/ ParserRejects
    \/ AppRoute
    \/ AppMcpSettles

AppSpec == AppInit /\ [][AppNext]_vars

-----------------------------------------------------------------------------
(* The Claude app: POST /api/messages *)

MaxMessages == 3

LowerChar(c) ==
    IF \E i \in 1..26 : UpperCaseLetters[i] = c
    THEN LowerCaseLetters[CHOOSE i \in 1..26 : UpperCaseLetters[i] = c]
    ELSE c

\* String.prototype.toLowerCase, on the characters the inputs use
ToLowerCase(s) == [i \in 1..Len(s) |-> LowerChar(s[i])]

\* the content of a message: a string, or something else (an array of content
\* blocks, or no content property)
TextContent(t) == [isString |-> TRUE, text |-> t]
OtherContent == [isString |-> FALSE, text |-> <<>>]

\* the elements of a messages array: null, or an object with a role
NullElement == [isNull |-> TRUE, role |-> "", content |-> OtherContent]
ChatMessage(role, content) == [isNull |-> FALSE, role |-> role, content |-> content]

ChatElements ==
    {NullElement,
     ChatMessage("user", TextContent(<<"l","i","s","t"," ","U","s","e","r","s">>)),
     ChatMessage("user", TextContent(<<"h","e","l","l","o">>)),
     ChatMessage("user", OtherContent),
     ChatMessage("assistant", TextContent(<<"h","i">>))}

\* req.body.messages: absent, a non-empty string, or an array
ChatBodies ==
    {[kind |-> "absent", items |-> <<>>], [kind |-> "string", items |-> <<>>]}
    \cup {[kind |-> "array", items |-> ms] :
             ms \in UNION {[1..n -> ChatElements] : n \in 0..MaxMessages}}

\* a POST /api/messages request whose body was parsed has reached its handler
ChatInit ==
    /\ InitRequests({})
    /\ SanIdle
    /\ app = [pc |-> "idle", method |-> <<>>, route |-> "", json |-> FALSE,
              data |-> <<>>, read |-> 0, ended |-> FALSE, err |-> "none",
              bodySanitized |-> FALSE, body |-> "undefined", parsed |-> <<>>,
              status |-> 0]
    /\ \E body \in ChatBodies : chat = [NoChat EXCEPT !.pc = "handler", !.body = body]

\* req.body.messages.filter(msg => msg.role === 'user')
UserMessages(items) == SelectSeq(items, LAMBDA msg : msg.role = "user")

\* app.post('/api/messages') up to its await
PostApiMessages ==
    /\ chat.pc = "handler"
    /\ IF chat.body.kind = "absent"
       THEN chat' = [chat EXCEPT !.pc = "done", !.status = 400]
       ELSE IF \/ chat.body.kind = "string"
               \/ \E i \in 1..Len(chat.body.items) : chat.body.items[i].isNull
       THEN \E st \in RejectedStatuses :
               chat' = [chat EXCEPT !.pc = "done", !.status = st]
       ELSE LET userMessages == UserMessages(chat.body.items) IN
            IF userMessages = <<>>
            THEN chat' = [chat EXCEPT !.pc = "done", !.status = 200]
            ELSE LET userQuery == userMessages[Len(userMessages)].content IN
                 IF ~userQuery.isString
                 THEN chat' = [chat EXCEPT !.pc = "done", !.status = 200,
                                           !.graphData = "fallback: request failed"]
                 ELSE chat' = [chat EXCEPT
                                  !.pc = "awaitMcp",
                                  !.call = IF Includes(ToLowerCase(userQuery.text),
                                                       <<"u","s","e","r">>)
                                           THEN "getUsers" ELSE "graphQuery"]
    /\ UNCHANGED <<srvVars, sanVars, app>>

\* how the call to the MCP server ends: with data, with a falsy value, or thrown
McpOutcomes == {"data", "nothing", "threw"}

\* app.post('/api/messages') from its await on
McpReturns ==
    /\ chat.pc = "awaitMcp"
    /\ \E out \in McpOutcomes :
          chat' = [chat EXCEPT
                      !.pc = "done", !.status = 200,
                      !.graphData = CASE out = "data" -> "result"
                                      [] out = "nothing" -> "fallback: no results"
                                      [] OTHER -> "fallback: request failed"]
    /\ UNCHANGED <<srvVars, sanVars, app>>

ChatNext ==
    \/ PostApiMessages
    \/ McpReturns

ChatSpec == ChatInit /\ [][ChatNext]_vars

-----------------------------------------------------------------------------
(* Vocabulary of the properties *)

\* graphQuery has been entered for request r
InGraphQuery(r) == outcome[r].kind # "none" \/ pc[r] \in {"awaitToken", "awaitFetch", "awaitJson"}

ValidationTexts ==
    {"Graph API endpoint is required", "Invalid HTTP method", "Invalid API version"}

\* graphQuery ended in a validation error
IsValidationError(out) == out.kind = "threw" /\ out.error.text \in ValidationTexts

\* the descriptor has no endpoint, or a method (upper-cased, GET when omitted)
\* outside GET, POST, PUT, PATCH, or a version (beta when omitted) outside beta, v1.0
InvalidDescriptor(d) ==
    \/ d.endpoint = Undefined \/ d.endpoint = <<>>
    \/ /\ d.method # Undefined /\ d.method # <<>>
       /\ ToUpperCase(d.method) \notin {GET, POST, PUT, PATCH}
    \/ /\ d.version # Undefined /\ d.version # <<>>
       /\ d.version \notin {BETA, V1}

\* the Graph requests among the outbound calls of r
GraphCalls(r) == SelectSeq(calls[r], LAMBDA c : c.kind = "graph")

\* a 2xx response whose body decodes and holds an item array
IsItemPage(resp) == ResponseOk(resp) /\ resp.jsonOk /\ resp.hasValue

RECURSIVE ConcatValues(_)
ConcatValues(pages) ==
    IF pages = <<>> THEN <<>> ELSE Head(pages).value \o ConcatValues(Tail(pages))

RECURSIVE SumSizes(_)
SumSizes(pages) ==
    IF pages = <<>> THEN 0 ELSE Len(Head(pages).value) + SumSizes(Tail(pages))

\* a chain of item pages, every page but the last carrying a next link
IsChain(pages) ==
    /\ \A i \in 1..Len(pages) : IsItemPage(pages[i])
    /\ \A i \in 1..(Len(pages) - 1) : pages[i].nextLink # Undefined
    /\ pages # <<>> => pages[Len(pages)].nextLink = Undefined

Last(seq) == seq[Len(seq)]

-----------------------------------------------------------------------------
(* C1 *)

\* C1: graphQuery rejects a descriptor with a missing endpoint, a method outside
\* GET/POST/PUT/PATCH or a version outside beta/v1.0, and whenever it ends in such
\* a validation error no outbound call (token or Graph) has been issued.
C1_ValidationBeforeOutbound ==
    \A r \in Reqs :
        /\ IsValidationError(outcome[r]) => calls[r] = <<>>
        /\ InGraphQuery(r) /\ InvalidDescriptor(desc[r]) =>
              IsValidationError(outcome[r]) /\ calls[r] = <<>>

C1_Witness ==
    \E r \in Reqs :
        /\ pc[r] = "done" /\ desc[r].method = DELETE
        /\ outcome[r].error.text = "Invalid HTTP method"

-----------------------------------------------------------------------------
(* C2 *)

\* C2: with allData true and a chain of at least two pages, graphQuery returns
\* the concatenation of all pages' items in page order, a count equal to the sum
\* of the page sizes, and no next link; pages of 3 and 2 items give 5 items.
C2_CombinedResult ==
    \A r \in Reqs :
        (pc[r] = "done" /\ desc[r].allData = "true"
           /\ Len(received[r]) >= 2 /\ IsChain(received[r]))
        => /\ outcome[r].kind = "returned"
           /\ outcome[r].result.hasValue
           /\ outcome[r].result.value = ConcatValues(received[r])
           /\ outcome[r].result.hasCount
           /\ outcome[r].result.count = SumSizes(received[r])
           /\ outcome[r].result.nextLink = Undefined
           /\ (Len(received[r]) = 2 /\ Len(received[r][1].value) = 3
                 /\ Len(received[r][2].value) = 2)
              => Len(outcome[r].result.value) = 5

C2_Witness ==
    \E r \in Reqs :
        /\ pc[r] = "done" /\ desc[r].allData = "true"
        /\ Len(received[r]) = 2 /\ IsChain(received[r])
        /\ Len(received[r][1].value) = 3 /\ Len(received[r][2].value) = 2
        /\ outcome[r].result.value = <<11, 12, 13, 21, 22>>

-----------------------------------------------------------------------------
(* C3 *)

\* the response is a failed page fetch: a network error, a non-2xx status, a body
\* that does not decode, or a body without an item array
IsFailedPage(resp) == ~IsItemPage(resp)

\* C3: when a page fetch after the first fails, graphQuery throws and returns none
\* of the accumulated items, and the route answers with an error status; a 200
\* of a paginated call always holds the items of every page.
C3_NoPartialResult ==
    \A r \in Reqs :
        /\ (pc[r] = "done" /\ Len(received[r]) >= 2 /\ IsFailedPage(Last(received[r])))
           => /\ outcome[r].kind = "threw"
              /\ outcome[r].result.value = <<>>
              /\ entry[r] = "route" =>
                    /\ response[r].status >= 400
                    /\ response[r].result.value = <<>>
        /\ (pc[r] = "done" /\ Len(received[r]) >= 2 /\ outcome[r].kind = "returned")
           => outcome[r].result.value = ConcatValues(received[r])
        /\ (response[r].status = 200 /\ Len(received[r]) >= 2)
           => response[r].result.value = ConcatValues(received[r])

C3_Witness ==
    \E r \in Reqs :
        /\ pc[r] = "done" /\ entry[r] = "route"
        /\ Len(received[r]) = 3 /\ Last(received[r]).status = 404
        /\ loc[r].allItems # <<>>
        /\ response[r].status = 500

-----------------------------------------------------------------------------
(* C4 *)

\* the one request of the single-request specifications
One == {1}

\* C4: with allData true and pages that all answer 2xx with an item array,
\* graphQuery returns; it stops at the first page without a next link, never
\* earlier, and issues exactly one Graph request per page; and a paginating call
\* that waits for a page eventually ends.
C4_PaginationTerminates ==
    /\ [](\A r \in One :
            /\ Len(GraphCalls(r)) =
                  Len(received[r]) + (IF pc[r] \in {"awaitFetch", "awaitJson"} THEN 1 ELSE 0)
            /\ (pc[r] = "done" /\ desc[r].allData = "true" /\ received[r] # <<>>
                  /\ \A i \in 1..Len(received[r]) : IsItemPage(received[r][i]))
               => /\ outcome[r].kind = "returned"
                  /\ IsChain(received[r])
                  /\ Len(GraphCalls(r)) = Len(received[r]))
    /\ \A r \in One :
          (pc[r] = "awaitFetch" /\ desc[r].allData = "true") ~> (pc[r] = "done")

C4_Witness ==
    \E r \in Reqs :
        /\ pc[r] = "done" /\ desc[r].allData = "true"
        /\ Len(received[r]) = 3 /\ IsChain(received[r])
        /\ Len(GraphCalls(r)) = 3
        /\ outcome[r].kind = "returned"

-----------------------------------------------------------------------------
(* C5 *)

\* C5: /users with GET requires User.Read.All, /users with POST, PUT or PATCH
\* User.ReadWrite.All, /groups with GET Group.Read.All, /groups with POST, PUT or
\* PATCH Group.ReadWrite.All, and every other endpoint Directory.ReadWrite.All;
\* the permission a 403 names is the one these rules give.
C5_PermissionRules ==
    \A r \in Reqs :
        (desc[r].endpoint # Undefined /\ desc[r].endpoint # <<>>) =>
        LET e == desc[r].endpoint
            m == desc[r].method
            perm == getPermissionForEndpoint(e, m)
            users == StartsWith(e, <<"/","u","s","e","r","s">>)
            groups == StartsWith(e, <<"/","g","r","o","u","p","s">>)
        IN /\ (users /\ m = GET) => perm = "User.Read.All"
           /\ (users /\ m \in {POST, PUT, PATCH}) => perm = "User.ReadWrite.All"
           /\ (groups /\ m = GET) => perm = "Group.Read.All"
           /\ (groups /\ m \in {POST, PUT, PATCH}) => perm = "Group.ReadWrite.All"
           /\ (~users /\ ~groups) => perm = "Directory.ReadWrite.All"
           /\ response[r].status = 403 => response[r].message.detail = perm

C5_Witness ==
    \E r \in Reqs :
        /\ desc[r].endpoint = SlashGroups /\ desc[r].method = POST
        /\ response[r].status = 403
        /\ response[r].message.detail = "Group.ReadWrite.All"

-----------------------------------------------------------------------------
(* C6 *)

\* C6: a POST /api/graph request whose required permission is not in the
\* context's permission set is answered 403 without any outbound call, and an
\* outbound call is only issued for a request whose required permission is held.
C6_PermissionGate ==
    \A r \in Reqs :
        (entry[r] = "route" /\ desc[r].endpoint # Undefined /\ desc[r].endpoint # <<>>) =>
        LET held == getPermissionForEndpoint(desc[r].endpoint, desc[r].method)
                        \in ctx[r].permissions
        IN /\ (pc[r] \notin {"recv", "handler"} /\ ~held)
              => /\ pc[r] = "done"
                 /\ response[r].status = 403
                 /\ calls[r] = <<>>
           /\ calls[r] # <<>> => held

C6_Witness ==
    \E r \in Reqs :
        /\ entry[r] = "route" /\ desc[r].endpoint = SlashUsers /\ desc[r].method = POST
        /\ response[r].status = 403 /\ calls[r] = <<>>

-----------------------------------------------------------------------------
(* C7 *)

\* the URL up to its query string
UrlPath(url) ==
    LET marks == {i \in 1..Len(url) : url[i] = "?"}
    IN IF marks = {} THEN url
       ELSE SubSeq(url, 1, (CHOOSE i \in marks : \A j \in marks : i <= j) - 1)

\* C7: the first Graph request of a call goes to
\* https://graph.microsoft.com/{version}/{endpoint without its leading slash}:
\* an endpoint without a leading slash gets one, one with a leading slash is
\* used as it is.
C7_EndpointNormalized ==
    \A r \in Reqs :
        GraphCalls(r) # <<>> =>
        LET e == desc[r].endpoint
            v == IF desc[r].version \in {Undefined, <<>>} THEN BETA ELSE desc[r].version
            bare == IF Head(e) = "/" THEN Tail(e) ELSE e
        IN UrlPath(GraphCalls(r)[1].url) = GraphHost \o v \o <<"/">> \o bare

C7_Witness ==
    \E r \in Reqs :
        /\ desc[r].endpoint = <<"u","s","e","r","s">>
        /\ GraphCalls(r) # <<>>
        /\ UrlPath(GraphCalls(r)[1].url) = GraphHost \o BETA \o SlashUsers

-----------------------------------------------------------------------------
(* C8 *)

\* C8: a POST /api/graph request that fails validation (endpoint missing, method
\* outside GET/POST/PUT/PATCH, version outside beta/v1.0) is answered with HTTP
\* 400 and a body with error and message fields.
C8_ValidationAnswered400 ==
    \A r \in Reqs :
        (entry[r] = "route" /\ pc[r] = "done" /\ InvalidDescriptor(desc[r]))
        => /\ response[r].status = 400
           /\ response[r].error # ""
           /\ response[r].message # NoError

-----------------------------------------------------------------------------
(* C9 *)

\* C9: when a Graph response has a non-2xx status, graphQuery throws an error
\* whose message carries that status, and the parsed error payload when there is
\* one, and the route answers 500 with error and message, the message holding
\* the upstream status.
C9_UpstreamError ==
    \A r \in Reqs :
        (pc[r] = "done" /\ received[r] # <<>>
           /\ Last(received[r]).status # 0
           /\ ~(Last(received[r]).status \in 200..299))
        => /\ outcome[r].kind = "threw"
           /\ outcome[r].error.status = Last(received[r]).status
           /\ Last(received[r]).jsonOk =>
                 outcome[r].error.detail = Last(received[r]).payload
           /\ entry[r] = "route" =>
                 /\ response[r].status = 500
                 /\ response[r].error # ""
                 /\ response[r].message.status = Last(received[r]).status

C9_Witness ==
    \E r \in Reqs :
        /\ pc[r] = "done" /\ entry[r] = "route"
        /\ Len(received[r]) = 1 /\ received[r][1].status = 404 /\ received[r][1].jsonOk
        /\ response[r].status = 500 /\ response[r].message.status = 404
        /\ response[r].message.detail = "{error}"

-----------------------------------------------------------------------------
(* C10 *)

\* the text with every single quote replaced by a double quote
WithDoubleQuotes(s) == [i \in 1..Len(s) |-> IF s[i] = "'" THEN "\"" ELSE s[i]]

\* one position of the removal of whitespace outside double-quoted strings
MinifyStep(st, s, i) ==
    IF st.escaped THEN [st EXCEPT !.escaped = FALSE, !.out = Append(@, s[i])]
    ELSE IF st.inString /\ s[i] = "\\"
    THEN [st EXCEPT !.escaped = TRUE, !.out = Append(@, s[i])]
    ELSE IF s[i] = "\"" THEN [st EXCEPT !.inString = ~@, !.out = Append(@, s[i])]
    ELSE IF ~st.inString /\ s[i] \in JsonWhitespace THEN st
    ELSE [st EXCEPT !.out = Append(@, s[i])]

RECURSIVE MinifyRange(_, _, _, _)
MinifyRange(st, s, lo, hi) ==
    IF lo > hi THEN st
    ELSE IF lo = hi THEN MinifyStep(st, s, lo)
    ELSE LET left == MinifyRange(st, s, lo, (lo + hi) \div 2)
         IN IF left.inString \in BOOLEAN
            THEN MinifyRange(left, s, (lo + hi) \div 2 + 1, hi)
            ELSE left

\* the text without the whitespace outside its double-quoted strings
Minify(s) ==
    MinifyRange([inString |-> FALSE, escaped |-> FALSE, out |-> <<>>], s, 1, Len(s)).out

\* the trimmed text starts and ends with a single quote
WrappedInSingleQuotes(s) == Head(Trim(s)) = "'" /\ Trim(s)[Len(Trim(s))] = "'"

\* the statement of C10 for one call
RepairsSingleQuotes ==
    /\ sOut = WithDoubleQuotes(sIn)
    /\ JsonParses(sOut)
    /\ sIn = MessagesExample => Minify(sOut) = MessagesExampleJson

\* C10 as stated: for JSON-like text whose only string delimiters are single
\* quotes, sanitizeJsonString returns the text with every single quote replaced
\* by a double quote, which parses.
C10_Original ==
    (sPc = "done" /\ sIn \in SingleQuotedTexts) => RepairsSingleQuotes

\* C10, amended: for JSON-like text whose only string delimiters are single
\* quotes and which, trimmed, does not both start and end with a single quote
\* (its top-level value is not a single-quoted string), sanitizeJsonString
\* returns the text with every single quote replaced by a double quote, which
\* parses; {'messages': [{'role': 'user', 'content': 'hi'}]} repairs to JSON
\* equal to {"messages":[{"role":"user","content":"hi"}]}.
C10_SingleQuoteRepair ==
    (sPc = "done" /\ sIn \in SingleQuotedTexts /\ ~WrappedInSingleQuotes(sIn))
    => RepairsSingleQuotes

C10_Witness ==
    /\ sPc = "done" /\ sIn = MessagesExample
    /\ sOut = WithDoubleQuotes(MessagesExample)
    /\ Minify(sOut) = MessagesExampleJson

-----------------------------------------------------------------------------
(* C11 *)

\* C11: for otherwise valid JSON in which some object keys are bare identifiers
\* over [A-Za-z0-9_$], sanitizeJsonString returns the text with each such key
\* wrapped in double quotes and everything else unchanged, which parses; a key
\* already in double quotes is not wrapped again.
C11_BareKeysQuoted ==
    \A c \in BareKeyCases :
        (sPc = "done" /\ sIn = c.in /\ c.in # c.want)
        => sOut = c.want /\ JsonParses(sOut)

-----------------------------------------------------------------------------
(* C12 *)

\* C12: for every input that is already valid JSON, sanitizeJsonString returns
\* the input unchanged, character for character.
C12_ValidJsonUnchanged ==
    (sPc = "done" /\ JsonParses(sIn)) => sOut = sIn

C12_Witness ==
    /\ sPc = "done" /\ sIn = Padded(DoubleQuoted(<<"i","t","'","s">>))
    /\ JsonParses(sIn) /\ sOut = sIn

-----------------------------------------------------------------------------
(* C13 *)

\* C13: for every input from which the repair produces no parseable JSON,
\* sanitizeJsonString returns exactly the string it was called with; so the
\* result of every call is valid JSON or the input itself.
C13_ReturnsOriginal ==
    sPc = "done" => (JsonParses(sOut) \/ sOut = sIn)

-----------------------------------------------------------------------------
(* C14 *)

\* the request carries JSON content whose body the repair cannot turn into JSON
Irreparable == app.json /\ ~JsonParses(sanitizeJsonString(app.data))

\* C14: a POST, PUT or PATCH with content-type application/json whose body
\* sanitizeJsonString cannot repair is answered 400 on every route, once the
\* body has arrived without a failure of the request stream.
C14_IrreparableAnswered400 ==
    (app.pc = "done" /\ app.method \in {POST, PUT, PATCH} /\ app.err # "stream"
       /\ Irreparable)
    => app.status = 400

-----------------------------------------------------------------------------
(* C15 *)

\* the caller's queryParams hold the key
HasParam(queryParams, key) ==
    queryParams.present /\ \E i \in 1..Len(queryParams.entries) : queryParams.entries[i].k = key

\* C15: graphQuery adds no consistencyLevel parameter by default: the URL of the
\* Graph request it issues contains consistencyLevel only if the caller's
\* queryParams held it when the request was built.
C15_NoDefaultConsistencyLevel ==
    [][\A r \in Reqs :
          (GraphCalls(r) = <<>> /\ GraphCalls(r)' # <<>>
             /\ Includes(GraphCalls(r)'[1].url, ConsistencyLevelKey))
          => HasParam(desc[r].queryParams, ConsistencyLevelKey)]_vars

-----------------------------------------------------------------------------
(* C16 *)

\* C16: POST /api/graph requires the X-User-ID header: a request without it is
\* answered with an error and causes no outbound call.
C16_UserIdRequired ==
    \A r \in Reqs :
        (entry[r] = "route" /\ userId[r] = Undefined)
        => /\ calls[r] = <<>>
           /\ pc[r] = "done" => response[r].status >= 400

-----------------------------------------------------------------------------
(* C17 *)

\* C17: when allData is false, or the first page has no item array or no next
\* link, graphQuery issues exactly one Graph request and returns the decoded
\* body of its response as it is: no wrapping, no count, no further request.
C17_SinglePageRaw ==
    \A r \in Reqs :
        (pc[r] = "done" /\ received[r] # <<>>
           /\ received[r][1].status \in 200..299 /\ received[r][1].jsonOk
           /\ \/ desc[r].allData # "true"
              \/ ~received[r][1].hasValue
              \/ received[r][1].nextLink = Undefined)
        => /\ Len(GraphCalls(r)) = 1
           /\ Len(received[r]) = 1
           /\ outcome[r].kind = "returned"
           /\ outcome[r].result.hasValue = received[r][1].hasValue
           /\ outcome[r].result.value = received[r][1].value
           /\ outcome[r].result.nextLink = received[r][1].nextLink
           /\ ~outcome[r].result.hasCount
           /\ entry[r] = "route" =>
                 response[r].status = 200 /\ response[r].result = outcome[r].result

C17_Witness ==
    \E r \in Reqs :
        /\ pc[r] = "done" /\ desc[r].allData = "true"
        /\ Len(received[r]) = 1 /\ IsItemPage(received[r][1])
        /\ received[r][1].nextLink = Undefined
        /\ Len(received[r][1].value) = MaxItems
        /\ outcome[r].result.value = received[r][1].value
        /\ ~outcome[r].result.hasCount

-----------------------------------------------------------------------------
(* C18 *)

\* the outbound call this response answers has failed: the fetch was rejected,
\* the status is not 2xx, or the body does not decode
FailedResponse(resp) ==
    resp.status = 0 \/ ~(resp.status \in 200..299) \/ ~resp.jsonOk

TokenCalls(r) == SelectSeq(calls[r], LAMBDA c : c.kind = "token")

\* C18: nothing is retried: a failed Graph request is the last call of its
\* request, no URL is requested twice, the token is requested at most once, and
\* the request ends with the failure (the route answers 500 with its message).
C18_NothingRetried ==
    \A r \in Reqs :
        /\ Len(TokenCalls(r)) <= 1
        /\ \A i, j \in 1..Len(GraphCalls(r)) :
              GraphCalls(r)[i].url = GraphCalls(r)[j].url => i = j
        /\ \A i \in 1..Len(received[r]) :
              FailedResponse(received[r][i])
              => /\ i = Len(received[r])
                 /\ Len(GraphCalls(r)) = i
                 /\ pc[r] = "done"
                 /\ outcome[r].kind = "threw"
                 /\ entry[r] = "route" =>
                       /\ response[r].status = 500
                       /\ response[r].message = outcome[r].error
        /\ (pc[r] = "done" /\ calls[r] # <<>> /\ GraphCalls(r) = <<>>)
           => /\ outcome[r].kind = "threw"
              /\ entry[r] = "route" =>
                    /\ response[r].status = 500
                    /\ response[r].message = outcome[r].error

C18_Witness ==
    \E r \in Reqs :
        /\ pc[r] = "done" /\ entry[r] = "route"
        /\ Len(received[r]) = 2 /\ received[r][2].status = 503
        /\ Len(GraphCalls(r)) = 2
        /\ response[r].status = 500 /\ response[r].message.status = 503

-----------------------------------------------------------------------------
(* C19 *)

\* the outbound calls of r that have not settled yet
InFlight(r) ==
    Len(calls[r]) - Len(received[r])
    - (IF calls[r] # <<>> /\ pc[r] # "awaitToken" THEN 1 ELSE 0)

\* C19: the fetches of one request are sequential: the request for page k+1 is
\* issued only after the response of page k was received and goes to the next
\* link of page k, and at most one outbound call of a request is in flight.
C19_SequentialPages ==
    \A r \in Reqs :
        /\ InFlight(r) \in {0, 1}
        /\ \A k \in 2..Len(GraphCalls(r)) :
              /\ k - 1 <= Len(received[r])
              /\ GraphCalls(r)[k].url = received[r][k - 1].nextLink

C19_Witness ==
    \E r \in Reqs :
        /\ pc[r] = "awaitFetch" /\ InFlight(r) = 1
        /\ Len(GraphCalls(r)) = 3 /\ Len(received[r]) = 2
        /\ GraphCalls(r)[3].url = received[r][2].nextLink
        /\ GraphCalls(r)[3].url # GraphCalls(r)[2].url

-----------------------------------------------------------------------------
(* C20 *)

\* how graphQuery ends when it receives the responses resps, in this order, from
\* the i-th on; NoOutcome when it has not ended with the last of them
RECURSIVE Replay(_, _, _)
Replay(l, resps, i) ==
    IF i > Len(resps) THEN NoOutcome
    ELSE LET step == PaginationStep(l, resps[i], i = 1)
         IN IF step.next = "done" THEN step.out
            ELSE Replay(step.loc, resps, i + 1)

\* the response of a POST /api/graph request with this header and body, served
\* on its own, when the token request succeeds or not and the Graph responses
\* are resps
AloneResponse(user, d, tokenOk, resps) ==
    IF RouteGate(d, initialize(user)) # NoResponse THEN RouteGate(d, initialize(user))
    ELSE IF ValidationError(d) # NoError THEN RouteReply(Threw(ValidationError(d)))
    ELSE IF ~tokenOk THEN RouteReply(Threw(Msg("token acquisition failed")))
    ELSE RouteReply(Replay(Defaults(RouteOptions(d)), resps, 1))

-----------------------------------------------------------------------------
(* C21: the Authorization header of the Graph requests *)

\* the value of a header of a request; Undefined when the request has none
HeaderValue(headers, name) ==
    IF \E i \in 1..Len(headers) : headers[i].k = name
    THEN headers[CHOOSE i \in 1..Len(headers) : headers[i].k = name].v
    ELSE "undefined"

\* C21: every Graph request of a graphQuery call, the first page and every
\* follow-up, carries Authorization: Bearer <the token that call acquired>,
\* whatever the headers of the descriptor are.
C21_BearerToken ==
    \A r \in Reqs :
        \A i \in 1..Len(GraphCalls(r)) :
            HeaderValue(GraphCalls(r)[i].headers, "Authorization")
                = "Bearer " \o loc[r].accessToken

-----------------------------------------------------------------------------
(* C22: graphQuery and the descriptor it is given *)

\* C22: graphQuery leaves the descriptor it was passed as it was: no step of a
\* call, successful or failed, changes the descriptor or the queryParams,
\* headers or body objects in it.
C22_DescriptorUnchanged == [][\A r \in Reqs : desc'[r] = desc[r]]_vars

-----------------------------------------------------------------------------
(* C23: POST /api/messages with a user message *)

\* the request's messages contain a user-role message
HasUserMessage ==
    /\ chat.body.kind = "array"
    /\ \E i \in 1..Len(chat.body.items) : chat.body.items[i].role = "user"

\* C23: a POST /api/messages request whose messages contain at least one
\* user-role message is answered 200 with graphData, whether the call to the
\* MCP server gives data, gives nothing or fails.
C23_UserMessageAnswered ==
    (chat.pc = "done" /\ HasUserMessage) =>
        (chat.status = 200 /\ chat.graphData # "none")

-----------------------------------------------------------------------------
(* C24: the scan and the double-quoted strings of its input *)

\* reading a text as JSON reads its strings: a backslash inside a string
\* escapes the character after it, and an unescaped double quote ends the string
LexStart == [inString |-> FALSE, escaped |-> FALSE]

LexStep(st, input, i) ==
    IF ~st.inString THEN [inString |-> input[i] = "\"", escaped |-> FALSE]
    ELSE IF st.escaped THEN [inString |-> TRUE, escaped |-> FALSE]
    ELSE IF input[i] = "\\" THEN [inString |-> TRUE, escaped |-> TRUE]
    ELSE [inString |-> input[i] # "\"", escaped |-> FALSE]

RECURSIVE LexRange(_, _, _, _)
LexRange(st, input, lo, hi) ==
    IF lo > hi THEN st
    ELSE IF lo = hi THEN LexStep(st, input, lo)
    ELSE LET left == LexRange(st, input, lo, (lo + hi) \div 2)
         IN IF left.inString \in BOOLEAN
            THEN LexRange(left, input, (lo + hi) \div 2 + 1, hi)
            ELSE left

\* position i of the text lies inside a double-quoted string
InsideString(input, i) == LexRange(LexStart, input, 1, i - 1).inString

\* the scan takes position i of the text to lie inside double quotes, and so
\* copies the character there
CopiedAsInside(input, i) == ScanRange(ScanStart, input, 1, i - 1).inDoubleQuotes

\* the scan loop runs on the text the call was given
ScanRuns(input) == ~JsonParses(StripOuterQuotes(input))

\* C24: the scan leaves the double-quoted strings of its input as they are:
\* every single quote and every colon inside a double-quoted string is copied
\* unchanged, and {name: "O'Brien: x"} repairs to {"name": "O'Brien: x"}.
C24_StringsKept ==
    /\ (sPc = "done" /\ ScanRuns(sIn)) =>
          LET input == StripOuterQuotes(sIn) IN
          \A i \in 1..Len(input) :
              (input[i] \in {"'", ":"} /\ InsideString(input, i))
                  => CopiedAsInside(input, i)
    /\ (sPc = "done" /\ sIn = NameExample) => sOut = NameExampleJson

-----------------------------------------------------------------------------
(* C25: the permission gate and the request that is dispatched *)

\* the permission of the request graphQuery would send: the endpoint with its
\* leading slash, the method defaulted and in upper case
DispatchedPermission(d) ==
    getPermissionForEndpoint(NormalizeEndpoint(d.endpoint), MethodOf(d))

\* C25: the permission gate of POST /api/graph decides on the request that is
\* dispatched: an endpoint without its leading slash, an omitted method and a
\* method in lower case require the permission of their normalized forms, so
\* endpoint users with no method requires User.Read.All like GET /users.
C25_GateOnDispatchedRequest ==
    \A r \in Reqs :
        (/\ entry[r] = "route" /\ pc[r] \notin {"recv", "handler"}
         /\ desc[r].endpoint # Undefined /\ desc[r].endpoint # <<>>) =>
            /\ response[r].status = 403 =>
                  /\ response[r].message.detail = DispatchedPermission(desc[r])
                  /\ DispatchedPermission(desc[r]) \notin ctx[r].permissions
            /\ DispatchedPermission(desc[r]) \in ctx[r].permissions =>
                  response[r].status # 403

-----------------------------------------------------------------------------
(* C26: what the hardcoded permission set lets through *)

\* GET on an endpoint that starts with /users or /groups
IsReadOfUsersOrGroups(d) ==
    /\ d.method = GET
    /\ StartsWith(d.endpoint, SlashUsers) \/ StartsWith(d.endpoint, SlashGroups)

\* C26: with the permissions every context gets (User.Read.All, Group.Read.All,
\* Sites.Read.All), POST /api/graph issues outbound calls only for GET on an
\* endpoint starting with /users or /groups; every other request that names an
\* endpoint (POST, PUT, PATCH, any other endpoint) is answered 403 without an
\* outbound call.
C26_OnlyReadsDispatched ==
    \A r \in Reqs :
        (/\ entry[r] = "route" /\ pc[r] \notin {"recv", "handler"}
         /\ desc[r].endpoint # Undefined /\ desc[r].endpoint # <<>>) =>
            /\ calls[r] # <<>> => IsReadOfUsersOrGroups(desc[r])
            /\ ~IsReadOfUsersOrGroups(desc[r]) =>
                  /\ pc[r] = "done"
                  /\ response[r].status = 403
                  /\ calls[r] = <<>>

C26_Witness ==
    \E r \in Reqs :
        /\ entry[r] = "route" /\ pc[r] = "done"
        /\ desc[r].endpoint = <<"/","m","e">> /\ desc[r].method = GET
        /\ response[r].status = 403
        /\ response[r].message.detail = "Directory.ReadWrite.All"
        /\ calls[r] = <<>>

-----------------------------------------------------------------------------
(* C27: the order of the steps of POST /api/graph *)

\* the route answered 500 because the token could not be acquired
TokenFailed(r) ==
    /\ response[r].status = 500
    /\ response[r].message.text = "token acquisition failed"

\* what the order of the steps allows a routed request to look like
StepsInOrder(r) ==
    /\ (IsFalsy(desc[r].endpoint) /\ pc[r] \notin {"recv", "handler"}) =>
          response[r].status = 400
    /\ response[r].status \in {400, 403} => calls[r] = <<>>
    /\ calls[r] # <<>> =>
          /\ ~IsFalsy(desc[r].endpoint)
          /\ getPermissionForEndpoint(desc[r].endpoint, desc[r].method)
                \in ctx[r].permissions
          /\ calls[r][1].kind = "token"
          /\ \A i \in 2..Len(calls[r]) : calls[r][i].kind = "graph"
    /\ TokenFailed(r) => calls[r] = <<TokenCall>>
    /\ (response[r] # NoResponse) <=> (pc[r] = "done")

\* C27: POST /api/graph runs its steps in a fixed order and answers once: the
\* missing-endpoint check (400), the permission check (403), the token request,
\* the Graph requests. A step that fails ends the request with one error
\* response and nothing runs after it: a 400 or 403 comes with no outbound
\* call, a failed token request with no Graph request, and once the response
\* is sent neither it nor the list of outbound calls changes.
C27_FixedOrder ==
    [][\A r \in Reqs :
          entry[r] = "route" =>
              /\ StepsInOrder(r)'
              /\ response[r] # NoResponse =>
                    /\ response'[r] = response[r]
                    /\ calls'[r] = calls[r]
                    /\ pc'[r] = "done"]_vars

C27_Witness ==
    \E r \in Reqs :
        /\ entry[r] = "route" /\ pc[r] = "done"
        /\ TokenFailed(r)
        /\ calls[r] = <<TokenCall>>

-----------------------------------------------------------------------------
(* C28: repairing a repaired text *)

\* C28: sanitizeJsonString is idempotent: called on the string it returned, it
\* returns that string again, for every input, those wrapped in single quotes
\* and those the repair gives up on included.
C28_Idempotent ==
    sPc = "done" => sanitizeJsonString(sOut) = sOut

-----------------------------------------------------------------------------
(* C29: single-quoted values that hold a colon *)

\* C29: the repair of single-quoted text does not depend on what its string
\* values hold, quotes and backslashes apart: a single-quoted value with a
\* colon in it, as in {'q': 'see http://x'}, is repaired like any other, to the
\* same text with double quotes, which parses.
C29_ColonValuesRepaired ==
    (sPc = "done" /\ sIn \in ColonValueTexts) =>
        (sOut = WithDoubleQuotes(sIn) /\ JsonParses(sOut))

-----------------------------------------------------------------------------
(* C30: the response and the X-User-ID header *)

\* how the token request of r was answered, "none" when it was not made
TokenAnswer(r) ==
    IF GraphCalls(r) # <<>> THEN "ok"
    ELSE IF outcome[r] = Threw(Msg("token acquisition failed")) THEN "failed"
    ELSE "none"

\* one sequence starts with the other
IsPrefix(s, t) == Len(s) <= Len(t) /\ SubSeq(t, 1, Len(s)) = s

\* the upstream gave the two requests the same answers, as far as each asked
SameUpstream(r, q) ==
    /\ {TokenAnswer(r), TokenAnswer(q)} # {"ok", "failed"}
    /\ IsPrefix(received[r], received[q]) \/ IsPrefix(received[q], received[r])

\* C30: the outcome of POST /api/graph does not depend on the X-User-ID header:
\* two requests with the same body and different user ids that get the same
\* upstream answers are answered with the same status and the same body.
C30_UserIdIrrelevant ==
    \A r, q \in Reqs :
        (/\ pc[r] = "done" /\ pc[q] = "done"
         /\ userId[r] # userId[q] /\ desc[r] = desc[q]
         /\ SameUpstream(r, q))
        => response[r] = response[q]

C30_Witness ==
    /\ pc[1] = "done" /\ pc[2] = "done"
    /\ userId[1] # userId[2] /\ Undefined \notin {userId[1], userId[2]}
    /\ desc[1] = desc[2]
    /\ received[1] = received[2] /\ Len(received[1]) = 1
    /\ loc[1].accessToken # loc[2].accessToken
    /\ response[1].status = 200 /\ response[1] = response[2]
    /\ Len(response[1].result.value) = MaxItems

====
